---- MODULE Spec2Model ----
(***************************************************************************)
(* State-machine model of ESGCompanyScraper (src/temp.py): one call of     *)
(* run_complete_analysis for one company.  The web (page loads, result     *)
(* containers, page texts, I/O errors) is the environment: each action     *)
(* draws what the browser returns from a small set.                        *)
(*                                                                         *)
(* Texts are sequences of tokens: a token is a maximal run of word         *)
(* characters, a punctuation mark, or the paragraph separator "\n".        *)
(* A keyword is a sequence of word tokens; r'\b' + keyword + r'\b' matches *)
(* where the keyword's tokens occur contiguously.                          *)
(***************************************************************************)
EXTENDS Integers, Sequences, FiniteSets, TLC

VARIABLES
    pc,            \* position in run_complete_analysis / the callee running
    company,       \* company_name, the argument of run_complete_analysis
    articles,      \* the article list (dicts as records, fields added in place)
    page,          \* browse-and-filter: the page of range(1, max_pages + 1)
    k,             \* containers handled so far in the current container loop
    altIdx,        \* search_alternative_esg_sources: index into alternative_sources
    altResults,    \* search_alternative_esg_sources: results
    idx,           \* get_article_content: index i of enumerate(articles)
    driver,        \* the browser session: "open" or "quit"
    quits,         \* number of driver.quit() calls
    usedAfterQuit, \* a navigation or page query happened on a quit session
    result,        \* the value run_complete_analysis returns
    exitPath,      \* how the try block was left: "normal", "empty", "exception"
    ran,           \* strategies / stages entered, in order
    caught,        \* strategies of the running search whose page-level handler caught an exception
    raised,        \* the last step caught an exception inside a search (page or container)
    json_file,     \* what save_to_json returned
    report_file,   \* what generate_report returned
    html_content,  \* generate_report: the articles listed in the report, in order
    retries,       \* safe_get: the number of attempts allowed
    retry_delay,   \* safe_get: seconds slept between two attempts
    attempt,       \* safe_get: the value of `attempt` in range(retries)
    navigations,   \* safe_get: driver.get calls made; get_article_content: articles navigated to
    sleeps,        \* safe_get, get_article_content: the time.sleep calls made, in order
    returned,      \* safe_get: "pending", then what it returned
    twin,          \* the article list of a second run that gets the same responses
    shown,         \* search_esg_news: what the browser shows: "blank", "results", "article"
    containers     \* search_esg_news: the result containers of the results page

vars == << pc, company, articles, page, k, altIdx, altResults, idx, driver,
           quits, usedAfterQuit, result, exitPath, ran, caught, raised,
           json_file, report_file, html_content,
           retries, retry_delay, attempt, navigations, sleeps, returned,
           twin, shown, containers >>

\* The state of a call of ESGNewsScraper.search_esg_news.
newsVars == << shown, containers >>

\* The second run is given the responses of the first: up to the analysis
\* passes, which read no page, its article list is the same function of them.
SameResponses == twin' = articles'

\* A pass with the possible outcomes `outcomes` in the first run and
\* `twinOutcomes` in the second: each run is left with one of its own.
InBothRuns(outcomes, twinOutcomes) ==
    /\ articles' \in outcomes
    /\ twin' \in IF twin = articles THEN outcomes ELSE twinOutcomes

\* The state of a call of safe_get.
fetchVars == << retries, retry_delay, attempt, navigations, sleeps, returned >>

(***************************************************************************)
(* Bounds of the environment.                                              *)
(***************************************************************************)
MaxDirect == 3      \* result containers on the direct-search page
MaxPerPage == 1     \* article containers on one browse page
MaxOther == 1       \* result containers on the search-engine / an alternate page
MaxFailed == 1      \* articles whose content retrieval fails in one run

(***************************************************************************)
(* Program constants.                                                      *)
(***************************************************************************)
max_pages == 5              \* search_esg_today_for_company(max_pages=5)
max_results == 5            \* search_alternative_esg_sources(max_results=5)
GoogleTop == 5              \* search_results[:5]
BrowseThreshold == 3        \* if len(articles) < 3  (Method 2)
GoogleThreshold == 2        \* if len(articles) < 2  (Method 3)
AltThreshold == 3           \* if len(articles) < 3  (Step 2)
MinContentLen == 100        \* if len(content) < 100

None == "None"

\* date = "Date not found"
DateNotFound == "Date not found"

\* What run_complete_analysis returns: None or the result dict.
ReturnedNone == [type |-> "NoneType"]

Min(a, b) == IF a < b THEN a ELSE b

\* dict update: the fields of upd are set in a, the others are kept.
SetFields(a, upd) == upd @@ a

Has(a, f) == f \in DOMAIN a

RECURSIVE SumSeq(_)
SumSeq(s) == IF s = << >> THEN 0 ELSE Head(s) + SumSeq(Tail(s))

RECURSIVE Concat(_)
Concat(ss) == IF ss = << >> THEN << >> ELSE Head(ss) \o Concat(Tail(ss))

(***************************************************************************)
(* Company names.  str.lower() and str.replace(" ", "") are tabulated on   *)
(* the names the model uses.                                               *)
(***************************************************************************)
CompanyNames == { "BlackRock", "Acme Corp" }

Lower(s) ==
    CASE s = "BlackRock" -> "blackrock"
      [] s = "Acme Corp" -> "acme corp"
      [] s = "Black" -> "black"
      [] s = "Rock" -> "rock"
      [] s = "Acme" -> "acme"
      [] s = "Corp" -> "corp"
      [] s = "Content" -> "content"
      [] s = "Climate" -> "climate"
      [] s = "Board" -> "board"
      [] s = "JPMorgan Chase" -> "jpmorgan chase"
      [] s = "Microsoft" -> "microsoft"
      [] s = "Globex" -> "globex"
      [] s = "We" -> "we"
      [] s = "CAPTCHA" -> "captcha"
      [] OTHER -> s

RemoveSpaces(s) ==
    CASE s = "acme corp" -> "acmecorp"
      [] s = "black rock" -> "blackrock"
      [] OTHER -> s

\* self.company_variations
company_variations ==
    << [name |-> "jpmorgan", variations |-> << "jpmorgan", "jp morgan", "j.p. morgan", "jpm", "jpmc", "j.p. morgan chase", "jpmorgan chase" >>],
       [name |-> "goldman sachs", variations |-> << "goldman sachs", "goldman", "goldman sachs group", "gs" >>],
       [name |-> "blackrock", variations |-> << "blackrock", "black rock" >>],
       [name |-> "morgan stanley", variations |-> << "morgan stanley", "ms" >>],
       [name |-> "citigroup", variations |-> << "citigroup", "citi", "citibank" >>],
       [name |-> "bank of america", variations |-> << "bank of america", "bofa", "bac", "bank of america corporation" >>],
       [name |-> "wells fargo", variations |-> << "wells fargo", "wf", "wells" >>],
       [name |-> "microsoft", variations |-> << "microsoft", "msft", "microsoft corporation" >>],
       [name |-> "apple", variations |-> << "apple", "aapl", "apple inc", "apple inc." >>],
       [name |-> "amazon", variations |-> << "amazon", "amzn", "amazon.com", "amazon.com inc", "amazon inc" >>],
       [name |-> "google", variations |-> << "google", "googl", "goog", "alphabet", "alphabet inc" >>],
       [name |-> "facebook", variations |-> << "facebook", "meta", "fb", "meta platforms" >>],
       [name |-> "tesla", variations |-> << "tesla", "tsla", "tesla inc", "tesla motors" >>],
       [name |-> "nvidia", variations |-> << "nvidia", "nvda" >>],
       [name |-> "exxonmobil", variations |-> << "exxonmobil", "exxon mobil", "exxon", "xom" >>],
       [name |-> "chevron", variations |-> << "chevron", "cvx", "chevron corporation" >>],
       [name |-> "shell", variations |-> << "shell", "royal dutch shell", "rdsa" >>],
       [name |-> "bp", variations |-> << "bp", "british petroleum", "bp plc" >>],
       [name |-> "unilever", variations |-> << "unilever", "ul" >>],
       [name |-> "nestle", variations |-> << "nestle", "nestlé", "nsrgy" >> ] >>

InSeq(x, s) == \E i \in 1..Len(s) : s[i] = x

\* Variant: a name that is not in the table gets its form without spaces as
\* canonical name.
NormalizeMissCompactName(company_name) ==
    LET company_lower == Lower(company_name)
        hits == { i \in 1..Len(company_variations) :
                    InSeq(company_lower, company_variations[i].variations) }
    IN  IF hits # {}
        THEN LET i == CHOOSE h \in hits : \A g \in hits : h <= g
             IN  [standard_name |-> company_variations[i].name,
                  variations |-> company_variations[i].variations]
        ELSE [standard_name |-> RemoveSpaces(company_lower),
              variations |-> << company_lower, RemoveSpaces(company_lower) >>]

\* Variant: a name that is not in the table keeps only its form without spaces.
NormalizeMissWithoutInput(company_name) ==
    LET company_lower == Lower(company_name)
        hits == { i \in 1..Len(company_variations) :
                    InSeq(company_lower, company_variations[i].variations) }
    IN  IF hits # {}
        THEN LET i == CHOOSE h \in hits : \A g \in hits : h <= g
             IN  [standard_name |-> company_variations[i].name,
                  variations |-> company_variations[i].variations]
        ELSE [standard_name |-> company_lower,
              variations |-> << RemoveSpaces(company_lower) >>]

\* normalize_company_name: the first table entry whose variations hold the
\* lowercased name, else the lowercased name with its two simple variations.
normalize_company_name(company_name) ==
    LET company_lower == Lower(company_name)
        hits == { i \in 1..Len(company_variations) :
                    InSeq(company_lower, company_variations[i].variations) }
    IN  IF hits # {}
        THEN LET i == CHOOSE h \in hits : \A g \in hits : h <= g
             IN  [standard_name |-> company_variations[i].name,
                  variations |-> company_variations[i].variations]
        ELSE [standard_name |-> company_lower,
              variations |-> << company_lower, RemoveSpaces(company_lower) >>]

(***************************************************************************)
(* Links.  A link is a site and a number; the program compares links for   *)
(* equality and (search-engine step) looks for a domain in them.  A result *)
(* container links either to an article already collected or to the next   *)
(* unused number: which number a new link carries makes no difference to   *)
(* the program.                                                            *)
(***************************************************************************)
PrimarySite == "esgnews.com"        \* search_url, news_urls
GoogleDomain == "esgtoday.com"      \* google_search_url, "esgtoday.com" in link

alternative_sources ==
    << [name |-> "Responsible Investor", site |-> "responsible-investor.com"],
       [name |-> "ESG Investor", site |-> "esginvestor.net"],
       [name |-> "Sustainable Views", site |-> "sustainableviews.com"] >>

LinksOf(arts) == { arts[i].link : i \in 1..Len(arts) }

FreshId(arts) ==
    LET used == { l.id : l \in LinksOf(arts) }
    IN  IF used = {} THEN 1
        ELSE 1 + (CHOOSE m \in used : \A n \in used : n <= m)

\* The links a container found on `sites` may carry, given the articles known.
CandidateLinks(arts, sites) ==
    LinksOf(arts) \cup { [site |-> s, id |-> FreshId(arts)] : s \in sites }

AlreadyFound(arts, link) == \E i \in 1..Len(arts) : arts[i].link = link

CountMethod(arts, m) ==
    Cardinality({ i \in 1..Len(arts) : arts[i].search_method = m })


(***************************************************************************)
(* Texts.                                                                  *)
(***************************************************************************)
\* The tokens of a name variation or keyword (one token unless listed).
Tokens(s) ==
    CASE s = "black rock" -> << "black", "rock" >>
      [] s = "acme corp" -> << "acme", "corp" >>
      [] s = "energy efficiency" -> << "energy", "efficiency" >>
      [] s = "net zero" -> << "net", "zero" >>
      [] s = "greenhouse gas" -> << "greenhouse", "gas" >>
      [] s = "carbon neutral" -> << "carbon", "neutral" >>
      [] s = "carbon footprint" -> << "carbon", "footprint" >>
      [] s = "human rights" -> << "human", "rights" >>
      [] s = "social impact" -> << "social", "impact" >>
      [] s = "equal opportunity" -> << "equal", "opportunity" >>
      [] s = "social justice" -> << "social", "justice" >>
      [] s = "fair trade" -> << "fair", "trade" >>
      [] s = "risk management" -> << "risk", "management" >>
      [] s = "corporate governance" -> << "corporate", "governance" >>
      [] s = "code of conduct" -> << "code", "of", "conduct" >>
      [] s = "conflict of interest" -> << "conflict", "of", "interest" >>
      [] s = "diversity targets" -> << "diversity", "targets" >>
      [] s = "green bond" -> << "green", "bond" >>
      [] s = "sustainable bond" -> << "sustainable", "bond" >>
      [] s = "social bond" -> << "social", "bond" >>
      [] s = "transition finance" -> << "transition", "finance" >>
      [] s = "esg fund" -> << "esg", "fund" >>
      [] s = "impact investing" -> << "impact", "investing" >>
      [] s = "socially responsible" -> << "socially", "responsible" >>
      [] s = "sustainable finance" -> << "sustainable", "finance" >>
      [] s = "green finance" -> << "green", "finance" >>
      [] s = "climate finance" -> << "climate", "finance" >>
      [] s = "net zero financing" -> << "net", "zero", "financing" >>
      [] s = "carbon neutral investment" -> << "carbon", "neutral", "investment" >>
      [] s = "stranded assets" -> << "stranded", "assets" >>
      [] OTHER -> << s >>

\* str.lower() of a text.
LowerText(t) == [i \in 1..Len(t) |-> Lower(t[i])]

\* Punctuation written without a space before it.
Attached == { ".", ",", ":" }

\* Whether a single space separates token i from token i + 1.
SpaceAfter(t, i) ==
    /\ i < Len(t)
    /\ t[i] # "\n"
    /\ t[i + 1] # "\n"
    /\ t[i + 1] \notin Attached

\* len() of a text in characters.
CharLen(t) ==
    SumSeq([i \in 1..Len(t) |-> Len(t[i]) + IF SpaceAfter(t, i) THEN 1 ELSE 0])

\* "\n".join(paragraphs)
RECURSIVE JoinLines(_)
JoinLines(ps) ==
    IF ps = << >> THEN << >>
    ELSE IF Len(ps) = 1 THEN ps[1]
    ELSE ps[1] \o << "\n" >> \o JoinLines(Tail(ps))

MatchesAt(kw, t, i) ==
    /\ i + Len(kw) - 1 <= Len(t)
    /\ \A j \in 1..Len(kw) : t[i + j - 1] = kw[j]

\* len(re.findall(r'\b' + re.escape(kw) + r'\b', t)): the matches from
\* position i on, left to right, not overlapping.
RECURSIVE CountFrom(_, _, _)
CountFrom(kw, t, i) ==
    IF kw = << >> \/ i > Len(t) THEN 0
    ELSE IF MatchesAt(kw, t, i) THEN 1 + CountFrom(kw, t, i + Len(kw))
    ELSE CountFrom(kw, t, i + 1)

CountMatches(kw, t) == CountFrom(Tokens(kw), t, 1)

\* `variation in text` on lowercased text.
Contains(t, variation) ==
    \E i \in 1..Len(t) : MatchesAt(Tokens(variation), t, i)

(***************************************************************************)
(* What the article pages hold and what a failed extraction reports.       *)
(***************************************************************************)
Filler ==
    << "the", "asset", "manager", "published", "its", "annual", "stewardship",
       "report", "on", "Monday", "and", "told", "investors", "that", "the",
       "programme", "will", "continue", "next", "year" >>

\* What the five date selectors of get_article_content find on a page, in
\* their order: no element (find_element raises), or an element with its
\* text and its datetime attribute (None when it has none).
NoElement == [found |-> FALSE]

NoDates == << NoElement, NoElement, NoElement, NoElement, NoElement >>

\* The page a site answers with when it challenges the browser: it loads,
\* and its <article> element holds the challenge text.
BlockPage ==
    [paragraphs |-> << << "Please", "complete", "the", "CAPTCHA", "to",
                          "continue" >> >>,
     element_text |-> << "Please", "complete", "the", "CAPTCHA", "to",
                         "continue" >>,
     categories |-> << >>,
     dates |-> NoDates]

\* An article page: the <p> texts of the content element and the element's
\* own text; categories of the page.
ArticlePages ==
    { [paragraphs |-> << >>, element_text |-> << >>, categories |-> << >>,
       dates |-> << NoElement, NoElement, NoElement, NoElement,
                    [found |-> TRUE, text |-> "", datetime |-> "2024-03-05" ] >>],
      [paragraphs |-> << << "BlackRock", "cuts", "carbon", "output" >>,
                         << "The", "Board", "of", "Acme", "Corp", "met" >> >>,
       element_text |-> << "BlackRock", "cuts", "carbon", "output", "\n",
                          "The", "Board", "of", "Acme", "Corp", "met", "\n",
                          "Black", "Rock", "news" >>,
       categories |-> << "ESG" >>,
       dates |-> << [found |-> TRUE, text |-> "March 5, 2024", datetime |-> None],
                    NoElement, NoElement, NoElement, NoElement >>],
      [paragraphs |-> << Filler \o << "Acme", "Corp", "and", "BlackRock", "back",
                                       "Climate", "safety", "audit" >> >>,
       element_text |-> << "menu" >>,
       categories |-> << >>,
       dates |-> << NoElement, NoElement,
                    [found |-> TRUE, text |-> "", datetime |-> None],
                    NoElement, NoElement >>],
      BlockPage }

\* The page every article of a whole run shows.
RunPages ==
    { [paragraphs |-> << << "BlackRock", "cuts", "carbon", "emissions" >> >>,
       element_text |-> << "Acme", "Corp", "and", "BlackRock", "cut", "carbon" >>,
       categories |-> << "ESG" >>,
       dates |-> NoDates] }

RunMessages == { << "Message", ":", "stale", "element", "reference" >> }

\* str(e) of an exception raised while an article is handled.
ExcMessages ==
    { << "Message", ":", "stale", "element", "reference" >>,
      << "Message", ":", "timeout", "loading", "climate", "bonds", "page" >> }

SentinelLoad ==
    << "Content", "extraction", "failed", "-", "page", "could", "not", "be", "loaded" >>

SentinelElement ==
    << "Content", "extraction", "failed", "-", "content", "element", "not", "found" >>

SentinelExc(msg) == << "Content", "extraction", "failed", ":" >> \o msg

\* The failure texts an article can end with; a run is kept to one of them.
Sentinels == {SentinelLoad, SentinelElement} \cup { SentinelExc(m) : m \in ExcMessages }

RunSentinels == { SentinelExc(m) : m \in RunMessages }

IsFailureSentinel(fc) ==
    /\ Len(fc) >= 3
    /\ SubSeq(fc, 1, 3) = << "Content", "extraction", "failed" >>

(***************************************************************************)
(* Control.                                                                *)
(***************************************************************************)
\* Variant: Method 2 entered with 3 articles as well.
NeedsBrowseInclusive(arts) == Len(arts) <= BrowseThreshold

\* Method 2 is entered when the direct search left fewer than 3 articles.
NeedsBrowse(arts) == Len(arts) < BrowseThreshold

\* Variant: Method 3 entered whatever has been collected.
NeedsGoogleAlways(arts) == TRUE

\* Method 3 is entered when fewer than 2 articles have been collected.
NeedsGoogle(arts) == Len(arts) < GoogleThreshold

\* Step 2 of run_complete_analysis.
NeedsAlternatives(arts) == Len(arts) < AltThreshold

\* Variant: a return that leaves without the finally clause.
ReturnWithoutFinally == "done"

\* Every way out of the try block passes through the finally clause.
ReturnTo == "finally"

\* A navigation or a page query on the session.
UseDriver == usedAfterQuit' = (usedAfterQuit \/ driver = "quit")

\* The date a strategy reads from a result container: the containers of
\* the primary site show none (the search-engine results never do), those of
\* the alternate sites show one.
ContainerDate(method) ==
    IF method = "alternative_source" THEN "March 5, 2024" ELSE DateNotFound

Article(link, source, method, comp) ==
    [link |-> link, source |-> source, search_method |-> method, company |-> comp,
     date |-> ContainerDate(method)]

\* Variant: the article of a container whose extraction raised is kept.
KeepOnContainerError(arts, art) == Append(arts, art)

\* A container whose extraction raised is skipped by the handler around it.
OnContainerError(arts, art) == arts

\* Methods 2 and 3 skip a link that is already in the list.
AppendIfNew(arts, art) ==
    IF AlreadyFound(arts, art.link) THEN arts ELSE Append(arts, art)

Init ==
    /\ pc = "start"
    /\ company \in CompanyNames
    /\ articles = << >>
    /\ page = 0
    /\ k = 0
    /\ altIdx = 0
    /\ altResults = << >>
    /\ idx = 0
    /\ driver = "open"
    /\ quits = 0
    /\ usedAfterQuit = FALSE
    /\ result = [type |-> "running"]
    /\ exitPath = "none"
    /\ ran = << >>
    /\ caught = {}
    /\ raised = FALSE
    /\ json_file = None
    /\ report_file = None
    /\ html_content = << >>
    /\ retries = 3
    /\ retry_delay = 2
    /\ attempt = 0
    /\ navigations = 0
    /\ sleeps = << >>
    /\ returned = "pending"
    /\ twin = articles
    /\ shown = "blank"
    /\ containers = << >>

standard_name == normalize_company_name(company).standard_name

(***************************************************************************)
(* search_esg_today_for_company                                            *)
(***************************************************************************)
\* run_complete_analysis enters the try block and calls the search.
Start ==
    /\ raised' = FALSE
    /\ pc = "start"
    /\ pc' = "direct"
    /\ articles' = << >>
    /\ UNCHANGED << company, page, k, altIdx, altResults, idx, driver, quits,
                    usedAfterQuit, result, exitPath, ran, caught,
                    json_file, report_file >>
    /\ UNCHANGED << html_content, fetchVars >>
    /\ SameResponses
    /\ UNCHANGED newsVars

\* Method 1: load the search URL, wait for the results, find the containers.
DirectLoad ==
    /\ pc = "direct"
    /\ \E outcome \in {"load_failed", "error", "no_results", "results"} :
         /\ pc' = IF outcome = "results" THEN "direct_loop" ELSE "m2"
         /\ caught' = IF outcome = "error" THEN caught \cup {"direct_search"}
                      ELSE caught
         /\ raised' = (outcome = "error")
    /\ k' = 0
    /\ ran' = Append(ran, "direct_search")
    /\ UseDriver
    /\ UNCHANGED << company, articles, page, altIdx, altResults, idx, driver,
                    quits, result, exitPath,
                    json_file, report_file >>
    /\ UNCHANGED << html_content, fetchVars >>
    /\ SameResponses
    /\ UNCHANGED newsVars

\* Method 1: one pass of `for article in search_articles`.
DirectContainer ==
    /\ pc = "direct_loop"
    /\ k < MaxDirect
    /\ k' = k + 1
    /\ UseDriver
    /\ \/ \* no title selector matches: continue
          UNCHANGED << articles, caught >> /\ raised' = FALSE
       \/ \* the extraction raises: caught around this container
          /\ \E l \in CandidateLinks(articles, {PrimarySite}) :
               articles' = OnContainerError(articles,
                   Article(l, "ESG Today", "direct_search", standard_name))
          /\ raised' = TRUE
          /\ UNCHANGED caught
       \/ \E l \in CandidateLinks(articles, {PrimarySite}) :
            /\ articles' = Append(articles,
                   Article(l, "ESG Today", "direct_search", standard_name))
            /\ UNCHANGED caught
            /\ raised' = FALSE
    /\ UNCHANGED << pc, company, page, altIdx, altResults, idx, driver, quits,
                    result, exitPath, ran,
                    json_file, report_file >>
    /\ UNCHANGED << html_content, fetchVars >>
    /\ SameResponses
    /\ UNCHANGED newsVars

DirectEnd ==
    /\ raised' = FALSE
    /\ pc = "direct_loop"
    /\ pc' = "m2"
    /\ UNCHANGED << company, articles, page, k, altIdx, altResults, idx, driver,
                    quits, usedAfterQuit, result, exitPath, ran, caught,
                    json_file, report_file >>
    /\ UNCHANGED << html_content, fetchVars >>
    /\ SameResponses
    /\ UNCHANGED newsVars

\* Method 2 guard.
BrowseCheck ==
    /\ raised' = FALSE
    /\ pc = "m2"
    /\ IF NeedsBrowse(articles)
       THEN /\ pc' = "browse"
            /\ page' = 1
            /\ ran' = Append(ran, "browse_filter")
       ELSE /\ pc' = "m3"
            /\ UNCHANGED << page, ran >>
    /\ UNCHANGED << company, articles, k, altIdx, altResults, idx, driver, quits,
                    usedAfterQuit, result, exitPath, caught,
                    json_file, report_file >>
    /\ UNCHANGED << html_content, fetchVars >>
    /\ SameResponses
    /\ UNCHANGED newsVars

\* The end of one pass of `for page in range(1, max_pages + 1)`.
NextPage ==
    IF page = max_pages
    THEN pc' = "m3" /\ page' = page
    ELSE pc' = "browse" /\ page' = page + 1

\* Method 2: load one news page (three URL patterns) and test for the company.
BrowsePage ==
    /\ pc = "browse"
    /\ UseDriver
    /\ k' = 0
    /\ \E outcome \in {"unreachable", "error", "not_mentioned", "mentioned"} :
         /\ IF outcome = "mentioned"
            THEN pc' = "browse_loop" /\ page' = page
            ELSE NextPage
         /\ caught' = IF outcome = "error" THEN caught \cup {"browse_filter"}
                      ELSE caught
         /\ raised' = (outcome = "error")
    /\ UNCHANGED << company, articles, altIdx, altResults, idx, driver, quits,
                    result, exitPath, ran,
                    json_file, report_file >>
    /\ UNCHANGED << html_content, fetchVars >>
    /\ SameResponses
    /\ UNCHANGED newsVars

\* Method 2: one pass of `for article in page_articles`.
BrowseContainer ==
    /\ pc = "browse_loop"
    /\ k < MaxPerPage
    /\ k' = k + 1
    /\ UseDriver
    /\ \/ \* the article text does not mention the company, or it has no title
          UNCHANGED << articles, caught >> /\ raised' = FALSE
       \/ /\ \E l \in CandidateLinks(articles, {PrimarySite}) :
               articles' = OnContainerError(articles,
                   Article(l, "ESG Today", "browse_filter", standard_name))
          /\ raised' = TRUE
          /\ UNCHANGED caught
       \/ \E l \in CandidateLinks(articles, {PrimarySite}) :
            /\ articles' = AppendIfNew(articles,
                   Article(l, "ESG Today", "browse_filter", standard_name))
            /\ UNCHANGED caught
            /\ raised' = FALSE
    /\ UNCHANGED << pc, company, page, altIdx, altResults, idx, driver, quits,
                    result, exitPath, ran,
                    json_file, report_file >>
    /\ UNCHANGED << html_content, fetchVars >>
    /\ SameResponses
    /\ UNCHANGED newsVars

BrowseEnd ==
    /\ raised' = FALSE
    /\ pc = "browse_loop"
    /\ NextPage
    /\ UNCHANGED << company, articles, k, altIdx, altResults, idx, driver, quits,
                    usedAfterQuit, result, exitPath, ran, caught,
                    json_file, report_file >>
    /\ UNCHANGED << html_content, fetchVars >>
    /\ SameResponses
    /\ UNCHANGED newsVars

\* Method 3 guard.
GoogleCheck ==
    /\ raised' = FALSE
    /\ pc = "m3"
    /\ IF NeedsGoogle(articles)
       THEN pc' = "google" /\ ran' = Append(ran, "google_search")
       ELSE pc' = "chain_done" /\ UNCHANGED ran
    /\ UNCHANGED << company, articles, page, k, altIdx, altResults, idx, driver,
                    quits, usedAfterQuit, result, exitPath, caught,
                    json_file, report_file >>
    /\ UNCHANGED << html_content, fetchVars >>
    /\ SameResponses
    /\ UNCHANGED newsVars

\* Method 3: load the search-engine page and find the result blocks.
GoogleLoad ==
    /\ pc = "google"
    /\ UseDriver
    /\ k' = 0
    /\ \E outcome \in {"load_failed", "error", "results"} :
         /\ pc' = IF outcome = "results" THEN "google_loop" ELSE "chain_done"
         /\ caught' = IF outcome = "error" THEN caught \cup {"google_search"}
                      ELSE caught
         /\ raised' = (outcome = "error")
    /\ UNCHANGED << company, articles, page, altIdx, altResults, idx, driver,
                    quits, result, exitPath, ran,
                    json_file, report_file >>
    /\ UNCHANGED << html_content, fetchVars >>
    /\ SameResponses
    /\ UNCHANGED newsVars

\* Method 3: one pass of `for result in search_results[:5]`.
GoogleContainer ==
    /\ pc = "google_loop"
    /\ k < Min(GoogleTop, MaxOther)
    /\ k' = k + 1
    /\ UseDriver
    /\ \/ /\ \E l \in CandidateLinks(articles, {GoogleDomain, PrimarySite}) :
               articles' = OnContainerError(articles,
                   Article(l, "ESG Today", "google_search", standard_name))
          /\ raised' = TRUE
          /\ UNCHANGED caught
       \/ \E l \in CandidateLinks(articles, {GoogleDomain, PrimarySite}) :
            /\ articles' = IF l.site = GoogleDomain
                           THEN AppendIfNew(articles,
                                  Article(l, "ESG Today", "google_search", standard_name))
                           ELSE articles
            /\ UNCHANGED caught
            /\ raised' = FALSE
    /\ UNCHANGED << pc, company, page, altIdx, altResults, idx, driver, quits,
                    result, exitPath, ran,
                    json_file, report_file >>
    /\ UNCHANGED << html_content, fetchVars >>
    /\ SameResponses
    /\ UNCHANGED newsVars

GoogleEnd ==
    /\ raised' = FALSE
    /\ pc = "google_loop"
    /\ pc' = "chain_done"
    /\ UNCHANGED << company, articles, page, k, altIdx, altResults, idx, driver,
                    quits, usedAfterQuit, result, exitPath, ran, caught,
                    json_file, report_file >>
    /\ UNCHANGED << html_content, fetchVars >>
    /\ SameResponses
    /\ UNCHANGED newsVars

(***************************************************************************)
(* search_alternative_esg_sources                                          *)
(***************************************************************************)
\* The search returns; Step 2 guard of run_complete_analysis.
AltCheck ==
    /\ raised' = FALSE
    /\ pc = "chain_done"
    /\ IF NeedsAlternatives(articles)
       THEN /\ pc' = "alt"
            /\ altIdx' = 1
            /\ ran' = Append(ran, "alternative_source")
       ELSE /\ pc' = "check_empty"
            /\ UNCHANGED << altIdx, ran >>
    /\ altResults' = << >>
    /\ page' = 0
    /\ k' = 0
    /\ caught' = {}
    /\ UNCHANGED << company, articles, idx, driver, quits,
                    usedAfterQuit, result, exitPath,
                    json_file, report_file >>
    /\ UNCHANGED << html_content, fetchVars >>
    /\ SameResponses
    /\ UNCHANGED newsVars

\* The end of one pass of `for source in alternative_sources` that does not
\* break; after the last source the results are returned and appended.
NextSource ==
    IF altIdx = Len(alternative_sources)
    THEN /\ pc' = "check_empty"
         /\ altIdx' = 0
         /\ articles' = articles \o altResults
         /\ altResults' = << >>
    ELSE /\ pc' = "alt"
         /\ altIdx' = altIdx + 1
         /\ articles' = articles
         /\ altResults' = altResults

AltSource ==
    /\ pc = "alt"
    /\ UseDriver
    /\ k' = 0
    /\ \E outcome \in {"load_failed", "error", "loaded"} :
         /\ IF outcome = "loaded"
            THEN pc' = "alt_loop" /\ UNCHANGED << altIdx, articles, altResults >>
            ELSE NextSource
         /\ raised' = (outcome = "error")
    /\ UNCHANGED << company, page, caught, idx, driver, quits, result,
                    exitPath, ran,
                    json_file, report_file >>
    /\ UNCHANGED << html_content, fetchVars >>
    /\ SameResponses
    /\ UNCHANGED newsVars

\* One pass of `for i, article in enumerate(article_elements[:max_results])`.
AltContainer ==
    /\ pc = "alt_loop"
    /\ k < Min(max_results, MaxOther)
    /\ k' = k + 1
    /\ UseDriver
    /\ \/ altResults' = altResults /\ raised' = FALSE
       \/ /\ \E l \in CandidateLinks(articles \o altResults,
                                     {alternative_sources[altIdx].site}) :
               altResults' = OnContainerError(altResults,
                   Article(l, alternative_sources[altIdx].name,
                           "alternative_source", company))
          /\ raised' = TRUE
       \/ \E l \in CandidateLinks(articles \o altResults,
                                  {alternative_sources[altIdx].site}) :
            /\ altResults' = Append(altResults,
                   Article(l, alternative_sources[altIdx].name,
                           "alternative_source", company))
            /\ raised' = FALSE
    /\ UNCHANGED << pc, company, caught, articles, page, altIdx, idx, driver, quits,
                    result, exitPath, ran,
                    json_file, report_file >>
    /\ UNCHANGED << html_content, fetchVars >>
    /\ SameResponses
    /\ UNCHANGED newsVars

\* Variant: the source loop never breaks.
NeverStop(results) == FALSE

\* `if results: break`
StopAfterSite(results) == results # << >>

\* The end of the container loop of one source.
AltEnd ==
    /\ raised' = FALSE
    /\ pc = "alt_loop"
    /\ IF StopAfterSite(altResults)
       THEN /\ pc' = "check_empty"
            /\ articles' = articles \o altResults
            /\ altIdx' = 0
            /\ altResults' = << >>
       ELSE NextSource
    /\ UNCHANGED << company, page, k, idx, driver, quits,
                    usedAfterQuit, result, exitPath, ran, caught,
                    json_file, report_file >>
    /\ UNCHANGED << html_content, fetchVars >>
    /\ SameResponses
    /\ UNCHANGED newsVars

\* `if not articles: return None`
CheckEmpty ==
    /\ pc = "check_empty"
    /\ raised' = FALSE
    /\ IF articles = << >>
       THEN /\ result' = ReturnedNone
            /\ exitPath' = "empty"
            /\ pc' = ReturnTo
            /\ idx' = idx
       ELSE /\ pc' = "content"
            /\ idx' = 1
            /\ UNCHANGED << result, exitPath >>
    /\ UNCHANGED << company, articles, page, k, altIdx, altResults, driver,
                    quits, usedAfterQuit, ran, caught,
                    json_file, report_file >>
    /\ UNCHANGED << html_content, fetchVars >>
    /\ SameResponses
    /\ UNCHANGED newsVars

(***************************************************************************)
(* get_article_content                                                     *)
(***************************************************************************)
name_variations(a) == normalize_company_name(a.company).variations

\* The sum over the variations of the whole-word matches in content.lower().
MentionCount(variations, content) ==
    SumSeq([i \in 1..Len(variations) |->
               CountMatches(variations[i], LowerText(content))])

\* The fields of an article whose page loaded and whose content element was found.
\* The loop over the date selectors from selector i on: the date is assigned
\* from every element found, the loop stops at the first assigned value that
\* is true.
RECURSIVE DateFrom(_, _, _)
DateFrom(date, dates, i) ==
    IF i > Len(dates) THEN date
    ELSE IF ~dates[i].found THEN DateFrom(date, dates, i + 1)
    ELSE LET assigned == IF dates[i].text # "" THEN dates[i].text
                         ELSE dates[i].datetime
         IN  IF assigned \notin {"", None} THEN assigned
             ELSE DateFrom(assigned, dates, i + 1)

\* `if article['date'] == "Date not found": ...`
ResolveDate(date, dates) ==
    IF date = DateNotFound THEN DateFrom(date, dates, 1) ELSE date

ContentExtracted(a, pg) ==
    LET paragraphs == SelectSeq(pg.paragraphs, LAMBDA p : p # << >>)
        joined == JoinLines(paragraphs)
        content == IF CharLen(joined) < MinContentLen
                   THEN pg.element_text ELSE joined
        variations == name_variations(a)
    IN  SetFields(a,
          [categories |-> pg.categories,
           date |-> ResolveDate(a.date, pg.dates),
           full_content |-> content,
           mention_count |-> MentionCount(variations, content),
           relevant_paragraphs |->
               SelectSeq(paragraphs, LAMBDA p :
                   \E i \in 1..Len(variations) :
                       Contains(LowerText(p), variations[i]))])

\* Variant: the failure paths leave relevant_paragraphs unset.
ContentFailedNoParagraphs(a, sentinel) ==
    SetFields(a, [full_content |-> sentinel, mention_count |-> 0])

\* Variant: the failure paths leave mention_count unset.
ContentFailedNoCount(a, sentinel) ==
    SetFields(a, [full_content |-> sentinel, relevant_paragraphs |-> << >>])

\* Variant: a failure path also resets the source of the article.
ContentFailedResetsSource(a, sentinel) ==
    SetFields(a, [full_content |-> sentinel,
                  mention_count |-> 0,
                  relevant_paragraphs |-> << >>,
                  source |-> "Unknown"])

\* The three failure paths: page not loaded, content element not found,
\* exception while the article is handled.
ContentFailed(a, sentinel) ==
    SetFields(a, [full_content |-> sentinel,
                  mention_count |-> 0,
                  relevant_paragraphs |-> << >>])

Failed(a) == Has(a, "full_content") /\ IsFailureSentinel(a.full_content)

\* ESGNewsScraper.safe_get: "blocked" or "captcha" in page_source.lower(),
\* read on a text of the page.
BlockIndicators == { "blocked", "captcha" }

ShowsBlock(t) == \E i \in 1..Len(t) : Lower(t[i]) \in BlockIndicators

NumFailed(arts) == Cardinality({ i \in 1..Len(arts) : Failed(arts[i]) })

\* Variant: the theme analysis is passed over after the last article.
AfterArticleSkipsThemes(i, n) == IF i >= n THEN "finance" ELSE "content"

\* After a failed article the loop goes on with the next one.
AfterArticle(i, n) == IF i >= n THEN "themes" ELSE "content"

\* time.sleep(3), the last statement of the try block of the loop body.
ArticleDelay == 3

\* One pass of `for i, article in enumerate(articles)`: the navigation to the
\* article (navigations counts the articles navigated to), then the success
\* path, which ends with the sleep, or one of the failure paths, which
\* `continue` or leave the try block before it.
GetArticleContent(pages, sentinels, maxFailed) ==
    /\ raised' = FALSE
    /\ pc = "content"
    /\ idx <= Len(articles)
    /\ UseDriver
    /\ navigations' = navigations + 1
    /\ \/ /\ \E pg \in pages :
               articles' = [articles EXCEPT ![idx] = ContentExtracted(@, pg)]
          /\ sleeps' = Append(sleeps, ArticleDelay)
       \/ /\ NumFailed(articles) < maxFailed
          /\ \E sentinel \in sentinels :
               articles' = [articles EXCEPT ![idx] = ContentFailed(@, sentinel)]
          /\ UNCHANGED sleeps
    /\ pc' = AfterArticle(idx, Len(articles))
    /\ idx' = idx + 1
    /\ UNCHANGED << company, page, k, altIdx, altResults, driver, quits, result,
                    exitPath, ran, caught, json_file, report_file >>
    /\ UNCHANGED << html_content, retries, retry_delay, attempt, returned >>
    /\ SameResponses
    /\ UNCHANGED newsVars

(***************************************************************************)
(* analyze_esg_themes                                                      *)
(***************************************************************************)
Themes == << "environmental", "social", "governance" >>

esg_themes ==
    [environmental |->
        << "climate", "carbon", "emissions", "renewable", "sustainable",
           "green", "environment", "pollution", "waste", "recycling",
           "biodiversity", "conservation", "energy efficiency", "net zero",
           "greenhouse gas", "ghg", "carbon neutral", "carbon footprint" >>,
     social |->
        << "diversity", "inclusion", "equity", "human rights", "labor",
           "community", "health", "safety", "wellbeing", "stakeholder",
           "employee", "workforce", "social impact", "ethical", "dei",
           "equal opportunity", "gender", "racial", "discrimination",
           "accessibility", "social justice", "fair trade" >>,
     governance |->
        << "board", "executive", "compensation", "transparency", "disclosure",
           "compliance", "risk management", "ethics", "corruption", "bribery",
           "accountability", "shareholder", "voting", "audit", "regulatory",
           "corporate governance", "oversight", "fiduciary", "code of conduct",
           "conflict of interest", "whistleblower", "diversity targets" >>]

\* Variant: only the first keyword of the list is counted.
KeywordTotalFirstOnly(keywords, content) == CountMatches(keywords[1], content)

\* The total number of matches of a keyword list in a text.
KeywordTotal(keywords, content) ==
    SumSeq([i \in 1..Len(keywords) |-> CountMatches(keywords[i], content)])

\* The keywords of a list with at least one match.
KeywordsFound(keywords, content) ==
    { keywords[i] : i \in { j \in 1..Len(keywords) :
                              CountMatches(keywords[j], content) > 0 } }

\* max(theme_counts.items(), key=lambda x: x[1]): the first maximal theme.
\* Variant: among the themes with the largest count the last one wins.
PrimaryFocusLastWins(counts) ==
    LET best == CHOOSE i \in 1..Len(Themes) :
                  /\ \A j \in 1..Len(Themes) : counts[Themes[j]] <= counts[Themes[i]]
                  /\ \A j \in (i + 1)..Len(Themes) : counts[Themes[j]] < counts[Themes[i]]
    IN  IF counts[Themes[best]] > 0 THEN Themes[best] ELSE "undetermined"

PrimaryFocus(counts) ==
    LET best == CHOOSE i \in 1..Len(Themes) :
                  /\ \A j \in 1..Len(Themes) : counts[Themes[j]] <= counts[Themes[i]]
                  /\ \A j \in 1..(i - 1) : counts[Themes[j]] < counts[Themes[i]]
    IN  IF counts[Themes[best]] > 0 THEN Themes[best] ELSE "undetermined"

\* Variant: only a missing full_content is skipped.
NoContentOnlyAbsent(a) == ~Has(a, "full_content")

\* `if 'full_content' not in article or not article['full_content']: continue`
NoContent(a) == ~Has(a, "full_content") \/ a.full_content = << >>

\* list(set(keywords)): every keyword once, in the iteration order of the
\* set, which for strings depends on the hash seed of the process; any order
\* can come out.
ListOfSet(S) ==
    { order \in [1..Cardinality(S) -> S] :
        \A i, j \in 1..Cardinality(S) : i # j => order[i] # order[j] }

\* The esg_keywords a process can record for a content.
ThemeKeywordLists(content) ==
    [environmental : ListOfSet(KeywordsFound(esg_themes.environmental, content)),
     social : ListOfSet(KeywordsFound(esg_themes.social, content)),
     governance : ListOfSet(KeywordsFound(esg_themes.governance, content))]

ThemeAnalysis(a, keywords) ==
    LET content == LowerText(a.full_content)
        counts == [t \in {"environmental", "social", "governance"} |->
                      KeywordTotal(esg_themes[t], content)]
    IN  SetFields(a,
          [esg_theme_counts |-> counts,
           esg_keywords |-> keywords,
           primary_esg_focus |-> PrimaryFocus(counts)])

\* What the pass can leave for an article.
ThemeOutcomes(a) ==
    IF NoContent(a) THEN {a}
    ELSE { ThemeAnalysis(a, keywords) :
             keywords \in ThemeKeywordLists(LowerText(a.full_content)) }

\* The lists the pass can leave for a list, article by article.
RECURSIVE ThemePassOutcomes(_)
ThemePassOutcomes(arts) ==
    IF arts = << >> THEN { << >> }
    ELSE { Append(before, last) :
             before \in ThemePassOutcomes(SubSeq(arts, 1, Len(arts) - 1)),
             last \in ThemeOutcomes(arts[Len(arts)]) }

analyze_esg_themes ==
    /\ raised' = FALSE
    /\ pc = "themes"
    /\ InBothRuns(ThemePassOutcomes(articles), ThemePassOutcomes(twin))
    /\ pc' = "finance"
    /\ UNCHANGED << company, page, k, altIdx, altResults, idx, driver, quits,
                    usedAfterQuit, result, exitPath, ran, caught,
                    json_file, report_file >>
    /\ UNCHANGED << html_content, fetchVars >>
    /\ UNCHANGED newsVars

(***************************************************************************)
(* add_sustainable_finance_data                                            *)
(***************************************************************************)
sustainable_finance_keywords ==
    << "green bond", "sustainable bond", "social bond",
       "sustainability-linked", "transition finance", "esg fund",
       "impact investing", "socially responsible", "sri",
       "sustainable finance", "green finance", "climate finance",
       "net zero financing", "carbon neutral investment", "stranded assets" >>

FinanceFocusThreshold == 3

\* Variant: 3 mentions are a focus already.
FinanceFocusInclusive(finance_mentions) == finance_mentions >= FinanceFocusThreshold

\* article['sustainable_finance_focus'] = finance_mentions > 3
FinanceFocus(finance_mentions) == finance_mentions > FinanceFocusThreshold

FinanceAnalysis(a, keywords) ==
    LET content == LowerText(a.full_content)
        finance_mentions == KeywordTotal(sustainable_finance_keywords, content)
    IN  SetFields(a,
          [sustainable_finance_mentions |-> finance_mentions,
           sustainable_finance_keywords |-> keywords,
           sustainable_finance_focus |-> FinanceFocus(finance_mentions)])

\* What the pass can leave for an article:
\* list(set(finance_keywords_found)) in any order.
FinanceOutcomes(a) ==
    IF NoContent(a) THEN {a}
    ELSE { FinanceAnalysis(a, keywords) :
             keywords \in ListOfSet(KeywordsFound(sustainable_finance_keywords,
                                                  LowerText(a.full_content))) }

\* The lists the pass can leave for a list, article by article.
RECURSIVE FinancePassOutcomes(_)
FinancePassOutcomes(arts) ==
    IF arts = << >> THEN { << >> }
    ELSE { Append(before, last) :
             before \in FinancePassOutcomes(SubSeq(arts, 1, Len(arts) - 1)),
             last \in FinanceOutcomes(arts[Len(arts)]) }

add_sustainable_finance_data ==
    /\ raised' = FALSE
    /\ pc = "finance"
    /\ InBothRuns(FinancePassOutcomes(articles), FinancePassOutcomes(twin))
    /\ pc' = "sentiment"
    /\ UNCHANGED << company, page, k, altIdx, altResults, idx, driver, quits,
                    usedAfterQuit, result, exitPath, ran, caught,
                    json_file, report_file >>
    /\ UNCHANGED << html_content, fetchVars >>
    /\ UNCHANGED newsVars

(***************************************************************************)
(* detect_sentiment                                                        *)
(***************************************************************************)
positive_words ==
    << "positive", "success", "innovation", "leadership", "achieve",
       "improve", "progress", "sustainable", "responsible", "ethical",
       "benefit", "advance", "growth", "excellence", "quality",
       "commitment", "partnership", "transparency", "trust", "award" >>

negative_words ==
    << "negative", "fail", "risk", "concern", "issue", "problem",
       "controversy", "violation", "penalty", "fine", "litigation",
       "criticism", "damage", "greenwashing", "investigation", "scandal",
       "warning", "insufficient", "dangerous", "harmful", "misleading" >>

\* content.count(" " + word + " ") from token i on: the word with a space on
\* both sides; a match uses up the space after it.
RECURSIVE CountSpacedFrom(_, _, _)
CountSpacedFrom(word, t, i) ==
    IF i > Len(t) THEN 0
    ELSE IF t[i] = word /\ i > 1 /\ SpaceAfter(t, i - 1) /\ SpaceAfter(t, i)
         THEN 1 + CountSpacedFrom(word, t, i + 2)
         ELSE CountSpacedFrom(word, t, i + 1)

SpacedTotal(words, content) ==
    SumSeq([i \in 1..Len(words) |-> CountSpacedFrom(words[i], content, 1)])

Abs(n) == IF n < 0 THEN -n ELSE n

\* Variant: the digits after the second decimal are cut off.
TruncateHundredths(num, den) ==
    (IF num < 0 THEN -1 ELSE 1) * ((100 * Abs(num)) \div den)

\* round(num / den, 2) in hundredths, for den > 0: the nearest hundredth, a
\* tie (an odd number of eighths, exact in binary) going to the even one.
RoundHundredths(num, den) ==
    LET sign == IF num < 0 THEN -1 ELSE 1
        n == 100 * Abs(num)
        q == n \div den
        r == n % den
    IN  sign * (IF 2 * r > den THEN q + 1
                ELSE IF 2 * r < den THEN q
                ELSE IF q % 2 = 0 THEN q ELSE q + 1)

\* The label is taken from the score before rounding, against 0.1 and -0.1.
SentimentLabel(positive_count, negative_count) ==
    LET total == positive_count + negative_count
        diff == positive_count - negative_count
    IN  IF total > 0 /\ 10 * diff > total THEN "positive"
        ELSE IF total > 0 /\ 10 * diff < -total THEN "negative"
        ELSE "neutral"

SentimentAnalysis(a) ==
    IF NoContent(a) THEN a
    ELSE LET content == LowerText(a.full_content)
             positive_count == SpacedTotal(positive_words, content)
             negative_count == SpacedTotal(negative_words, content)
             total == positive_count + negative_count
         IN  SetFields(a,
               [sentiment_score |->
                    IF total > 0
                    THEN RoundHundredths(positive_count - negative_count, total)
                    ELSE 0,
                sentiment |-> SentimentLabel(positive_count, negative_count),
                positive_words |-> positive_count,
                negative_words |-> negative_count])

detect_sentiment ==
    /\ raised' = FALSE
    /\ pc = "sentiment"
    /\ articles' = [i \in 1..Len(articles) |-> SentimentAnalysis(articles[i])]
    /\ pc' = "quotes"
    /\ UNCHANGED << company, page, k, altIdx, altResults, idx, driver, quits,
                    usedAfterQuit, result, exitPath, ran, caught,
                    json_file, report_file >>
    /\ UNCHANGED << html_content, fetchVars >>
    /\ UNCHANGED newsVars
    /\ twin' = IF twin = articles THEN articles'
               ELSE [i \in 1..Len(twin) |-> SentimentAnalysis(twin[i])]

(***************************************************************************)
(* extract_quotes                                                          *)
(***************************************************************************)
Quote == "\""

\* (?:said|says|according to|commented|noted|explained|added) at token i:
\* the number of tokens it takes, 0 when none starts there.
VerbAt(t, i) ==
    IF i > Len(t) THEN 0
    ELSE IF t[i] \in {"said", "says", "commented", "noted", "explained", "added"}
         THEN 1
    ELSE IF t[i] = "according" /\ i < Len(t) /\ t[i + 1] = "to" THEN 2
    ELSE 0

\* The closing quote of "([^"]+)" opened at token q: 0 when there is none or
\* nothing stands between the two.
ClosingQuote(t, q) ==
    IF q > Len(t) \/ t[q] # Quote THEN 0
    ELSE LET later == { c \in (q + 1)..Len(t) : t[c] = Quote }
         IN  IF later = {} THEN 0
             ELSE LET c == CHOOSE x \in later : \A y \in later : x <= y
                  IN  IF c = q + 1 THEN 0 ELSE c

\* The last token of ([^,.]+) started at token b: it runs to the next comma
\* or full stop; 0 when it would be empty.
SpeakerEnd(t, b) ==
    IF b > Len(t) \/ t[b] \in {",", "."} THEN 0
    ELSE LET stops == { e \in b..Len(t) : t[e] \in {",", "."} }
         IN  IF stops = {} THEN Len(t)
             ELSE (CHOOSE x \in stops : \A y \in stops : x <= y) - 1

\* Pattern 1, "text" [,] verb speaker, tried at token q:
\* [text, speaker, last token of the match], or last = 0.
Attribution(t, q) ==
    LET c == ClosingQuote(t, q)
        v == IF c = 0 THEN 0
             ELSE IF c < Len(t) /\ t[c + 1] = "," THEN c + 2 ELSE c + 1
        n == IF v = 0 THEN 0 ELSE VerbAt(t, v)
        e == IF n = 0 THEN 0 ELSE SpeakerEnd(t, v + n)
    IN  IF e = 0 THEN [last |-> 0]
        ELSE [last |-> e,
              text |-> SubSeq(t, q + 1, c - 1),
              speaker |-> SubSeq(t, v + n, e),
              pattern |-> "attribution"]

\* Pattern 2, verb speaker [,.] "text", tried at token v: the speaker is the
\* longest run that leaves a quoted text right after it.
Preceding(t, v) ==
    LET n == VerbAt(t, v)
        longest == IF n = 0 THEN 0 ELSE SpeakerEnd(t, v + n)
        OpenAfter(e) == IF e = longest /\ e < Len(t) /\ t[e + 1] \in {",", "."}
                        THEN {e + 1, e + 2} ELSE {e + 1}
        ends == { e \in (v + n)..longest :
                    \E q \in OpenAfter(e) : ClosingQuote(t, q) # 0 }
    IN  IF n = 0 \/ longest = 0 \/ ends = {} THEN [last |-> 0]
        ELSE LET e == CHOOSE x \in ends : \A y \in ends : y <= x
                 q == CHOOSE x \in OpenAfter(e) :
                        /\ ClosingQuote(t, x) # 0
                        /\ \A y \in OpenAfter(e) : ClosingQuote(t, y) # 0 => x <= y
             IN  [last |-> ClosingQuote(t, q),
                  text |-> SubSeq(t, q + 1, ClosingQuote(t, q) - 1),
                  speaker |-> SubSeq(t, v + n, e),
                  pattern |-> "preceding_attribution"]

\* re.findall: the matches of a pattern from token i on, left to right, the
\* search resuming after each match.
RECURSIVE FindAll(_, _, _)
FindAll(pattern, t, i) ==
    IF i > Len(t) THEN << >>
    ELSE LET m == IF pattern = "attribution" THEN Attribution(t, i)
                  ELSE Preceding(t, i)
         IN  IF m.last = 0 THEN FindAll(pattern, t, i + 1)
             ELSE << [text |-> m.text, speaker |-> m.speaker, pattern |-> m.pattern] >>
                  \o FindAll(pattern, t, m.last + 1)

\* Variant: only the speaker is looked at.
IsCompanyQuoteSpeakerOnly(quote, variations) ==
    \E i \in 1..Len(variations) :
        Contains(LowerText(quote.speaker), variations[i])

\* A quote is kept when a name variation occurs in its speaker or its text.
IsCompanyQuote(quote, variations) ==
    \E i \in 1..Len(variations) :
        \/ Contains(LowerText(quote.speaker), variations[i])
        \/ Contains(LowerText(quote.text), variations[i])

QuoteExtraction(a) ==
    IF NoContent(a) THEN a
    ELSE LET content == a.full_content
             quotes == FindAll("attribution", content, 1)
                       \o FindAll("preceding_attribution", content, 1)
             variations == name_variations(a)
             company_quotes ==
                 SelectSeq(quotes, LAMBDA qt : IsCompanyQuote(qt, variations))
         IN  SetFields(a, [quotes |-> company_quotes,
                           quote_count |-> Len(company_quotes)])

extract_quotes ==
    /\ raised' = FALSE
    /\ pc = "quotes"
    /\ articles' = [i \in 1..Len(articles) |-> QuoteExtraction(articles[i])]
    /\ pc' = "save"
    /\ UNCHANGED << company, page, k, altIdx, altResults, idx, driver, quits,
                    usedAfterQuit, result, exitPath, ran, caught,
                    json_file, report_file >>
    /\ UNCHANGED << html_content, fetchVars >>
    /\ UNCHANGED newsVars
    /\ twin' = IF twin = articles THEN articles'
               ELSE [i \in 1..Len(twin) |-> QuoteExtraction(twin[i])]

(***************************************************************************)
(* save_to_json, generate_report, the end of run_complete_analysis         *)
(***************************************************************************)
\* An exception that leaves the try block is handled by `except Exception`.
RaiseTo == "except"

\* Variant: save_to_json returns nothing.
SavedNothing(arts) == None

\* What save_to_json returns when the file is written.
SavedName(arts) == IF arts = << >> THEN None ELSE "json_file"

\* pd.DataFrame(articles).to_json(filename) writes the file or raises.
save_to_json ==
    /\ raised' = FALSE
    /\ pc = "save"
    /\ \/ /\ json_file' = SavedName(articles)
          /\ pc' = "report"
       \/ /\ articles # << >>
          /\ pc' = RaiseTo
          /\ UNCHANGED json_file
    /\ UNCHANGED << company, articles, page, k, altIdx, altResults, idx, driver,
                    quits, usedAfterQuit, result, exitPath, ran, caught,
                    report_file >>
    /\ UNCHANGED << html_content, fetchVars >>
    /\ UNCHANGED twin
    /\ UNCHANGED newsVars

FocusNames == {"environmental", "social", "governance", "undetermined"}

\* The lookups of generate_report that raise on an article: a key that is not
\* there (theme_totals[theme], article['link']), the first letter of an empty
\* primary focus.
ReportRaisesOn(a) ==
    \/ ~Has(a, "link")
    \/ /\ Has(a, "esg_theme_counts")
       /\ ~(DOMAIN a.esg_theme_counts \subseteq {"environmental", "social", "governance"})
    \/ Has(a, "primary_esg_focus") /\ a.primary_esg_focus = ""

ReportRaises(arts) == \E i \in 1..Len(arts) : ReportRaisesOn(arts[i])

\* `for article in sorted_articles[:10]` and `article['quotes'][:3]`
TopArticles == 10
ShownQuotes == 3

\* key=lambda x: x.get('mention_count', 0)
MentionKey(a) == IF Has(a, "mention_count") THEN a.mention_count ELSE 0

\* Variant: an article is placed before the articles of equal mention_count.
RECURSIVE InsertBeforeEqual(_, _)
InsertBeforeEqual(a, s) ==
    IF s = << >> THEN << a >>
    ELSE IF MentionKey(Head(s)) > MentionKey(a)
         THEN << Head(s) >> \o InsertBeforeEqual(a, Tail(s))
         ELSE << a >> \o s

\* An article is placed after every article whose mention_count is not
\* smaller: sorted() is stable, also with reverse=True.
RECURSIVE InsertByMentions(_, _)
InsertByMentions(a, s) ==
    IF s = << >> THEN << a >>
    ELSE IF MentionKey(Head(s)) >= MentionKey(a)
         THEN << Head(s) >> \o InsertByMentions(a, Tail(s))
         ELSE << a >> \o s

\* sorted(articles, key=..., reverse=True)
RECURSIVE SortedByMentions(_)
SortedByMentions(arts) ==
    IF arts = << >> THEN << >>
    ELSE InsertByMentions(arts[Len(arts)],
                          SortedByMentions(SubSeq(arts, 1, Len(arts) - 1)))

\* s[:n]
FirstN(s, n) == SubSeq(s, 1, IF Len(s) < n THEN Len(s) ELSE n)

\* The quotes rendered for an article.
QuotesShown(a) ==
    IF Has(a, "quotes") /\ a.quotes # << >> THEN FirstN(a.quotes, ShownQuotes)
    ELSE << >>

\* The <div class="article"> block of an article, by what it shows.
ReportEntry(a) ==
    [link |-> a.link,
     mention_count |-> MentionKey(a),
     primary_focus |-> IF Has(a, "primary_esg_focus") THEN a.primary_esg_focus
                       ELSE "undetermined",
     sentiment |-> IF Has(a, "sentiment") THEN a.sentiment ELSE "neutral",
     quotes |-> QuotesShown(a)]

\* The "Key ESG Articles" section of html_content.
ReportListing(arts) ==
    LET top == FirstN(SortedByMentions(arts), TopArticles)
    IN  [i \in 1..Len(top) |-> ReportEntry(top[i])]

\* The report is written, or open()/write() fails (logged, None returned), or
\* os.getcwd() or the rendering raises.
generate_report ==
    /\ raised' = FALSE
    /\ pc = "report"
    /\ \/ /\ ~ReportRaises(articles)
          /\ \E written \in BOOLEAN :
               report_file' = IF articles = << >> \/ ~written THEN None
                              ELSE "report_file"
          /\ html_content' = IF articles = << >> THEN html_content
                             ELSE ReportListing(articles)
          /\ pc' = "return"
       \/ /\ articles # << >>
          /\ pc' = RaiseTo
          /\ UNCHANGED << report_file, html_content >>
    /\ UNCHANGED << company, articles, page, k, altIdx, altResults, idx, driver,
                    quits, usedAfterQuit, result, exitPath, ran, caught,
                    json_file >>
    /\ UNCHANGED fetchVars
    /\ UNCHANGED twin
    /\ UNCHANGED newsVars

\* return {"articles": ..., "json_file": ..., "report_file": ..., "article_count": ...}
Return ==
    /\ raised' = FALSE
    /\ pc = "return"
    /\ result' = [type |-> "dict", articles |-> articles, json_file |-> json_file,
                  report_file |-> report_file, article_count |-> Len(articles)]
    /\ exitPath' = "normal"
    /\ pc' = ReturnTo
    /\ UNCHANGED << company, articles, page, k, altIdx, altResults, idx, driver,
                    quits, usedAfterQuit, ran, caught, json_file,
                    report_file >>
    /\ UNCHANGED << html_content, fetchVars >>
    /\ UNCHANGED twin
    /\ UNCHANGED newsVars

\* except Exception: return None
Except ==
    /\ raised' = FALSE
    /\ pc = "except"
    /\ result' = ReturnedNone
    /\ exitPath' = "exception"
    /\ pc' = ReturnTo
    /\ UNCHANGED << company, articles, page, k, altIdx, altResults, idx, driver,
                    quits, usedAfterQuit, ran, caught, json_file,
                    report_file >>
    /\ UNCHANGED << html_content, fetchVars >>
    /\ UNCHANGED twin
    /\ UNCHANGED newsVars

\* finally: self.cleanup(), which calls driver.quit() and swallows its error.
cleanup ==
    /\ raised' = FALSE
    /\ pc = "finally"
    /\ driver' = "quit"
    /\ quits' = quits + 1
    /\ pc' = "done"
    /\ UNCHANGED << company, articles, page, k, altIdx, altResults, idx,
                    usedAfterQuit, result, exitPath, ran, caught,
                    json_file, report_file >>
    /\ UNCHANGED << html_content, fetchVars >>
    /\ UNCHANGED twin
    /\ UNCHANGED newsVars

Discovery ==
    \/ Start \/ DirectLoad \/ DirectContainer \/ DirectEnd
    \/ BrowseCheck \/ BrowsePage \/ BrowseContainer \/ BrowseEnd
    \/ GoogleCheck \/ GoogleLoad \/ GoogleContainer \/ GoogleEnd
    \/ AltCheck \/ AltSource \/ AltContainer \/ AltEnd \/ CheckEmpty

Analysis ==
    \/ analyze_esg_themes \/ add_sustainable_finance_data
    \/ detect_sentiment \/ extract_quotes \/ save_to_json \/ generate_report
    \/ Return \/ Except \/ cleanup

\* One run of run_complete_analysis.  The article pages are kept to one page
\* and the failing articles to MaxFailed; SpecContent explores them in full.
Next ==
    \/ Discovery
    \/ GetArticleContent(RunPages, RunSentinels, MaxFailed)
    \/ Analysis

Spec == Init /\ [][Next]_vars

(***************************************************************************)
(* get_article_content and the stages after it, on every article list of   *)
(* at most MaxArticles articles as discovery builds them, with every page  *)
(* and every failure.                                                      *)
(***************************************************************************)
MaxArticles == 2

DiscoveredArticle(c, i) ==
    { Article([site |-> PrimarySite, id |-> i], "ESG Today", "direct_search",
              normalize_company_name(c).standard_name),
      Article([site |-> alternative_sources[1].site, id |-> i],
              alternative_sources[1].name, "alternative_source", c) }

ArticleLists(c) ==
    UNION { { arts \in [1..n -> UNION { DiscoveredArticle(c, i) : i \in 1..n }] :
                \A i \in 1..n : arts[i] \in DiscoveredArticle(c, i) } :
            n \in 1..MaxArticles }

InitContent ==
    /\ pc = "content"
    /\ company \in CompanyNames
    /\ articles \in ArticleLists(company)
    /\ page = 0
    /\ k = 0
    /\ altIdx = 0
    /\ altResults = << >>
    /\ idx = 1
    /\ driver = "open"
    /\ quits = 0
    /\ usedAfterQuit = FALSE
    /\ result = [type |-> "running"]
    /\ exitPath = "none"
    /\ ran = << >>
    /\ caught = {}
    /\ raised = FALSE
    /\ json_file = None
    /\ report_file = None
    /\ html_content = << >>
    /\ retries = 3
    /\ retry_delay = 2
    /\ attempt = 0
    /\ navigations = 0
    /\ sleeps = << >>
    /\ returned = "pending"
    /\ twin = articles
    /\ shown = "blank"
    /\ containers = << >>

NextContent ==
    \/ GetArticleContent(ArticlePages, Sentinels, MaxArticles)
    \/ Analysis

SpecContent == InitContent /\ [][NextContent]_vars

(***************************************************************************)
(* The four analysis passes and the stages after them on one article: on   *)
(* every company name of NameInputs, and on texts with every number of     *)
(* theme keywords, finance keywords and sentiment words up to the bounds.  *)
(***************************************************************************)
MaxThemeWords == 2
MaxFinanceWords == 4
MaxSentimentWords == 16

\* The names of __main__, every variation of the table, names not in it.
NameInputs ==
    { "BlackRock", "JPMorgan Chase", "Microsoft", "Acme Corp", "acme corp",
      "Globex", "" }
    \cup UNION { { company_variations[i].variations[j] :
                     j \in 1..Len(company_variations[i].variations) } :
                 i \in 1..Len(company_variations) }

RECURSIVE Repeat(_, _)
Repeat(words, n) == IF n <= 0 THEN << >> ELSE words \o Repeat(words, n - 1)

\* n words taken in turn from two words, so that no word follows itself.
RECURSIVE Alternate(_, _, _)
Alternate(w1, w2, n) ==
    IF n <= 0 THEN << >> ELSE << w1 >> \o Alternate(w2, w1, n - 1)

ThemeTexts ==
    { Repeat(<< "climate" >>, e) \o Repeat(<< "diversity" >>, s)
        \o Repeat(<< "board" >>, g) :
      e \in 0..MaxThemeWords, s \in 0..MaxThemeWords, g \in 0..MaxThemeWords }

FinanceTexts ==
    { Repeat(<< "sustainable", "bond" >>, f) \o Repeat(<< "green", "finance" >>, h) :
      f \in 0..MaxFinanceWords, h \in 0..1 }

SentimentTexts ==
    { << "the" >> \o Alternate("success", "growth", p)
        \o Alternate("risk", "concern", n) \o << "report" >> :
      p \in 0..MaxSentimentWords, n \in 0..MaxSentimentWords }

QuoteText ==
    << Quote, "We", "cut", "emissions", Quote, ",", "said", "BlackRock", "chief" >>

\* Four matches: a quote about the company by somebody else, a quote that
\* has nothing to do with it (matched by both patterns, with different
\* speakers), and a quote introduced by a speaker of the company.
MixedQuotes ==
    << Quote, "BlackRock", "leads", Quote, "said", "the", "analyst", ".",
       Quote, "costs", "rose", Quote, ",", "noted", "a", "trader", ".",
       "then", "added", "Black", "Rock", "chief", ",",
       Quote, "We", "invest", Quote >>

AnalysisTexts ==
    ThemeTexts \cup FinanceTexts \cup SentimentTexts \cup {QuoteText, MixedQuotes}

\* An article as get_article_content leaves it when its page shows text t.
ArticleWithText(c, t) ==
    ContentExtracted(
        Article([site |-> alternative_sources[1].site, id |-> 1],
                alternative_sources[1].name, "alternative_source", c),
        [paragraphs |-> << t >>, element_text |-> t, categories |-> << >>,
         dates |-> NoDates])

\* The same article before get_article_content: no full_content.
ArticleWithoutContent(c) ==
    Article([site |-> alternative_sources[1].site, id |-> 1],
            alternative_sources[1].name, "alternative_source", c)

AnalysisInputs ==
    { [company |-> c, article |-> ArticleWithText(c, QuoteText)] : c \in NameInputs }
    \cup { [company |-> "BlackRock", article |-> ArticleWithText("BlackRock", t)] :
             t \in AnalysisTexts }
    \cup { [company |-> "BlackRock", article |-> ArticleWithoutContent("BlackRock")] }

InitAnalysis ==
    /\ pc = "themes"
    /\ \E in \in AnalysisInputs :
          /\ company = in.company
          /\ articles = << in.article >>
    /\ page = 0
    /\ k = 0
    /\ altIdx = 0
    /\ altResults = << >>
    /\ idx = 2
    /\ driver = "open"
    /\ quits = 0
    /\ usedAfterQuit = FALSE
    /\ result = [type |-> "running"]
    /\ exitPath = "none"
    /\ ran = << >>
    /\ caught = {}
    /\ raised = FALSE
    /\ json_file = None
    /\ report_file = None
    /\ html_content = << >>
    /\ retries = 3
    /\ retry_delay = 2
    /\ attempt = 0
    /\ navigations = 0
    /\ sleeps = << >>
    /\ returned = "pending"
    /\ twin = articles
    /\ shown = "blank"
    /\ containers = << >>

NextAnalysis == Analysis

SpecAnalysis == InitAnalysis /\ [][NextAnalysis]_vars

(***************************************************************************)
(* safe_get on its own: one call with the arguments retries and            *)
(* retry_delay, every driver.get either loading the page or raising.       *)
(***************************************************************************)

MaxRetries == 5
MaxDelay == 2

runVars == << company, articles, page, k, altIdx, altResults, idx, driver,
              quits, usedAfterQuit, result, exitPath, ran, caught, raised,
              json_file, report_file, html_content, twin, shown, containers >>

InitSafeGet ==
    /\ pc = "safe_get"
    /\ retries \in -1..MaxRetries
    /\ retry_delay \in 0..MaxDelay
    /\ attempt = 0
    /\ navigations = 0
    /\ sleeps = << >>
    /\ returned = "pending"
    /\ company = "BlackRock"
    /\ articles = << >>
    /\ twin = articles
    /\ shown = "blank"
    /\ containers = << >>
    /\ page = 0
    /\ k = 0
    /\ altIdx = 0
    /\ altResults = << >>
    /\ idx = 1
    /\ driver = "open"
    /\ quits = 0
    /\ usedAfterQuit = FALSE
    /\ result = [type |-> "running"]
    /\ exitPath = "none"
    /\ ran = << >>
    /\ caught = {}
    /\ raised = FALSE
    /\ json_file = None
    /\ report_file = None
    /\ html_content = << >>

\* One pass of the body of "for attempt in range(retries)": driver.get loads
\* the page (return True) or raises; the handler sleeps and goes on to the
\* next attempt when attempt < retries - 1, and returns False otherwise.
SafeGetAttempt ==
    /\ pc = "safe_get"
    /\ attempt < retries
    /\ navigations' = navigations + 1
    /\ \E loaded \in BOOLEAN :
          IF loaded
          THEN /\ returned' = "True"
               /\ pc' = "safe_get_returned"
               /\ UNCHANGED << attempt, sleeps >>
          ELSE IF attempt < retries - 1
               THEN /\ sleeps' = Append(sleeps, retry_delay)
                    /\ attempt' = attempt + 1
                    /\ UNCHANGED << pc, returned >>
               ELSE /\ returned' = "False"
                    /\ pc' = "safe_get_returned"
                    /\ UNCHANGED << attempt, sleeps >>
    /\ UNCHANGED << retries, retry_delay, runVars >>

\* range(retries) has no further value: the function ends without a return
\* statement, which returns None.
SafeGetLoopEnds ==
    /\ pc = "safe_get"
    /\ attempt >= retries
    /\ returned' = "None"
    /\ pc' = "safe_get_returned"
    /\ UNCHANGED << retries, retry_delay, attempt, navigations, sleeps, runVars >>

NextSafeGet == SafeGetAttempt \/ SafeGetLoopEnds

SpecSafeGet == InitSafeGet /\ [][NextSafeGet]_vars

(***************************************************************************)
(* generate_report on its own: article lists longer than the listing, with *)
(* equal, different and missing mention counts, and an article with more   *)
(* quotes than the listing shows.                                          *)
(***************************************************************************)

MaxReportArticles == 11
MaxQuotes == 4

\* The j-th quote of an article.
ReportQuote(j) ==
    [text |-> Repeat(<< "more" >>, j) \o << "emissions", "cuts" >>,
     speaker |-> << "BlackRock", "chief" >>,
     pattern |-> "attribution"]

\* The mention_count of the i-th article: 2 or 1 when the company was
\* counted in it, else 0 or no mention_count at all (-1 here).
MentionOf(i, counted) ==
    IF i \in counted THEN 1 + (i % 2)
    ELSE IF i % 2 = 0 THEN 0 ELSE -1

\* The i-th article of the list; the first one carries q quotes.
ReportArticle(i, counted, q) ==
    LET found == Article([site |-> PrimarySite, id |-> i], "ESG Today",
                         "direct_search", "blackrock")
        withCount == IF MentionOf(i, counted) < 0 THEN found
                     ELSE SetFields(found, [mention_count |-> MentionOf(i, counted)])
    IN  IF i = 1
        THEN SetFields(withCount, [quotes |-> [j \in 1..q |-> ReportQuote(j)],
                                   quote_count |-> q])
        ELSE withCount

InitReport ==
    /\ pc = "report"
    /\ company = "BlackRock"
    /\ \E n \in 1..MaxReportArticles :
          /\ \E counted \in SUBSET (1..n) : \E q \in 0..MaxQuotes :
                articles = [i \in 1..n |-> ReportArticle(i, counted, q)]
          /\ idx = n + 1
    /\ page = 0
    /\ k = 0
    /\ altIdx = 0
    /\ altResults = << >>
    /\ driver = "open"
    /\ quits = 0
    /\ usedAfterQuit = FALSE
    /\ result = [type |-> "running"]
    /\ exitPath = "none"
    /\ ran = << >>
    /\ caught = {}
    /\ raised = FALSE
    /\ json_file = "json_file"
    /\ report_file = None
    /\ html_content = << >>
    /\ retries = 3
    /\ retry_delay = 2
    /\ attempt = 0
    /\ navigations = 0
    /\ sleeps = << >>
    /\ returned = "pending"
    /\ twin = articles
    /\ shown = "blank"
    /\ containers = << >>

NextReport == generate_report

SpecReport == InitReport /\ [][NextReport]_vars

(***************************************************************************)
(* ESGNewsScraper.search_esg_news (web_scraper.py): one search URL, the    *)
(* result containers of its page, and for each container the title, the    *)
(* content of the linked article, the date and the excerpt.                *)
(***************************************************************************)

MaxContainers == 3

ContentExtractionFailed == "Content extraction failed"
NoExcerpt == "No excerpt available"

\* A result container: whether a title selector finds an element in it,
\* whether a date selector does; its <p> holds the excerpt.
Containers ==
    UNION { [1..n -> [titled : BOOLEAN, dated : BOOLEAN]] : n \in 0..MaxContainers }

InitNews ==
    /\ pc = "news_load"
    /\ company = "BlackRock"
    /\ articles = << >>
    /\ twin = articles
    /\ shown = "blank"
    /\ containers \in Containers
    /\ page = 0
    /\ k = 0
    /\ altIdx = 0
    /\ altResults = << >>
    /\ idx = 1
    /\ driver = "open"
    /\ quits = 0
    /\ usedAfterQuit = FALSE
    /\ result = [type |-> "running"]
    /\ exitPath = "none"
    /\ ran = << >>
    /\ caught = {}
    /\ raised = FALSE
    /\ json_file = None
    /\ report_file = None
    /\ html_content = << >>
    /\ retries = 3
    /\ retry_delay = 2
    /\ attempt = 0
    /\ navigations = 0
    /\ sleeps = << >>
    /\ returned = "pending"

\* What a news action leaves alone.
newsFrame == << company, page, altIdx, altResults, idx, driver, quits,
                usedAfterQuit, result, exitPath, ran, caught, raised, json_file,
                report_file, html_content, retries, retry_delay, attempt,
                sleeps, returned, containers >>

\* safe_get(search_url): the results page is shown, or the load failed and
\* the only search strategy is over.
NewsLoad ==
    /\ pc = "news_load"
    /\ navigations' = navigations + 1
    /\ \E loaded \in BOOLEAN :
          IF loaded THEN shown' = "results" /\ pc' = "news_loop"
          ELSE shown' = shown /\ pc' = "news_done"
    /\ UNCHANGED << articles, k >>
    /\ SameResponses
    /\ UNCHANGED newsFrame

\* The article a container yields: its date and its excerpt are read from
\* the container after extract_article_content has returned, which only
\* works while the browser still shows the page of the container (on any
\* other page the element is stale and every selector raises).
NewsArticle(i, content, showsResults) ==
    [title |-> "title",
     link |-> [site |-> PrimarySite, id |-> i],
     content |-> content,
     date |-> IF showsResults /\ containers[i].dated THEN "March 5, 2024"
              ELSE DateNotFound,
     excerpt |-> IF showsResults THEN "excerpt" ELSE NoExcerpt,
     source |-> "ESG News"]

\* One pass of `for article in page_articles`: the title selectors (all of
\* them raise on a stale container), then extract_article_content(link),
\* which navigates to the article, then the date and the excerpt.
NewsContainer ==
    /\ pc = "news_loop"
    /\ k < Len(containers)
    /\ k' = k + 1
    /\ IF shown # "results" \/ ~containers[k + 1].titled
       THEN UNCHANGED << articles, shown, navigations >>
       ELSE /\ navigations' = navigations + 1
            /\ \E outcome \in {"extracted", "no_content", "blocked", "get_raised_left",
                                "get_raised_stayed"} :
                 /\ shown' = IF outcome = "get_raised_stayed" THEN shown ELSE "article"
                 /\ articles' = Append(articles,
                       NewsArticle(k + 1,
                           IF outcome = "extracted" THEN "content"
                           ELSE ContentExtractionFailed,
                           shown' = "results"))
    /\ pc' = pc
    /\ SameResponses
    /\ UNCHANGED newsFrame

\* The loop over the containers is over: return articles.
NewsEnd ==
    /\ pc = "news_loop"
    /\ k >= Len(containers)
    /\ pc' = "news_done"
    /\ UNCHANGED << articles, k, shown, navigations >>
    /\ SameResponses
    /\ UNCHANGED newsFrame

NextNews == NewsLoad \/ NewsContainer \/ NewsEnd

SpecNews == InitNews /\ [][NextNews]_vars

(***************************************************************************)
(* Properties.                                                             *)
(***************************************************************************)
ChainPcs == {"direct", "direct_loop", "m2", "browse", "browse_loop", "m3",
             "google", "google_loop", "chain_done"}

DiscoveryPcs == {"start"} \cup ChainPcs \cup {"alt", "alt_loop", "check_empty"}

\* Positions after the Method 2 guard, after the browse loop, after the
\* Method 3 guard, after the Step 2 guard.
AfterM2 == { "browse", "browse_loop", "m3", "google", "google_loop", "chain_done",
             "alt", "alt_loop", "check_empty", "content", "themes", "finance",
             "sentiment", "quotes", "save", "report", "return", "except",
             "finally", "done" }

AfterBrowse == AfterM2 \ {"browse", "browse_loop"}

AfterM3 == AfterBrowse \ {"m3"}

AfterAltCheck == AfterM3 \ {"google", "google_loop", "chain_done"}

NoSharedLink(arts) ==
    \A i, j \in 1..Len(arts) : i # j => arts[i].link # arts[j].link

AllOfMethod(arts, m) == \A i \in 1..Len(arts) : arts[i].search_method = m

\* C1: once discovery is over, no two articles of the list share a link.
C1_NoSharedLink == pc \notin DiscoveryPcs => NoSharedLink(articles)

\* C2: the browser session is released exactly once and as the last step on
\* every exit path (normal return, early return on no articles, exception):
\* every exit goes through the finally clause, where cleanup can run; the
\* session is quit exactly when the run is done; nothing runs after the
\* release and the session is never used after it.
C2_ReleasedOnceAtExit ==
    /\ quits <= 1
    /\ (exitPath # "none") <=> (pc \in {"finally", "done"})
    /\ pc = "finally" => (quits = 0 /\ driver = "open" /\ ENABLED cleanup)
    /\ (pc = "done") <=> (quits = 1)
    /\ (driver = "quit") <=> (quits = 1)
    /\ pc = "done" => ~ENABLED Next
    /\ ~usedAfterQuit

\* C2 happens: a run that left through the exception handler is done and
\* has released the session once.
C2_Witness == pc = "done" /\ exitPath = "exception" /\ quits = 1 /\ driver = "quit"

\* C3 as stated: a finished run has either a result with the articles and
\* json_file and report_file both set, or None with discovery having
\* returned no article.
C3_TwoOutcomes ==
    pc = "done" =>
       \/ /\ result.type = "dict"
          /\ result.articles = articles
          /\ result.json_file # None
          /\ result.report_file # None
       \/ /\ result.type = "NoneType"
          /\ exitPath = "empty"
          /\ articles = << >>

\* C3: a finished run has exactly one of three outcomes: a result with the
\* enriched articles, their count and json_file set, whose report_file is
\* set or is None when the report could not be written; None because
\* discovery returned no article; None because an exception left a stage
\* after articles had been found.
C3_Outcomes ==
    pc = "done" =>
       \/ /\ result.type = "dict"
          /\ exitPath = "normal"
          /\ articles # << >>
          /\ result.articles = articles
          /\ result.article_count = Len(articles)
          /\ result.json_file = "json_file"
          /\ result.report_file \in {"report_file", None}
       \/ /\ result.type = "NoneType"
          /\ exitPath = "empty"
          /\ articles = << >>
       \/ /\ result.type = "NoneType"
          /\ exitPath = "exception"
          /\ articles # << >>

\* C3 happens: a finished run returned a result whose report_file is None.
C3_Witness ==
    /\ pc = "done"
    /\ result.type = "dict"
    /\ result.json_file = "json_file"
    /\ result.report_file = None

\* C4: the strategies run in the order direct search, browse-and-filter,
\* search engine; browse-and-filter runs exactly when the direct search
\* left fewer than 3 articles, the search engine exactly when fewer than 2
\* articles had been collected by the two before it.
C4_StrategyOrder ==
    /\ SelectSeq(ran, LAMBDA m : m # "alternative_source")
          \in { << >>, << "direct_search" >>,
                << "direct_search", "browse_filter" >>,
                << "direct_search", "google_search" >>,
                << "direct_search", "browse_filter", "google_search" >> }
    /\ pc \in AfterM2 =>
          (InSeq("browse_filter", ran)
             <=> CountMethod(articles, "direct_search") < BrowseThreshold)
    /\ pc \in AfterM3 =>
          (InSeq("google_search", ran)
             <=> CountMethod(articles, "direct_search")
                 + CountMethod(articles, "browse_filter") < GoogleThreshold)

\* C4 happens: the search is over, browse-and-filter ran after a direct
\* search that found nothing, and the search engine was skipped.
C4_Witness ==
    /\ pc = "chain_done"
    /\ ran = << "direct_search", "browse_filter" >>
    /\ CountMethod(articles, "direct_search") = 0
    /\ CountMethod(articles, "browse_filter") >= GoogleThreshold

\* C5: when the direct search yields 0 articles and browse-and-filter
\* yields 5, the article list is exactly those 5 articles, all of method
\* browse_filter with distinct links; the search engine and the alternate
\* sites are not run and add nothing, up to the returned result.
C5_BrowseOnlyFive ==
    ( /\ pc \in AfterBrowse
      /\ CountMethod(articles, "direct_search") = 0
      /\ CountMethod(articles, "browse_filter") = 5 )
    => /\ Len(articles) = 5
       /\ AllOfMethod(articles, "browse_filter")
       /\ NoSharedLink(articles)
       /\ ~InSeq("google_search", ran)
       /\ ~InSeq("alternative_source", ran)
       /\ altResults = << >>
       /\ (pc = "done" /\ result.type = "dict") =>
             /\ result.article_count = 5
             /\ AllOfMethod(result.articles, "browse_filter")

\* C5 happens: a finished run returned 5 articles, all found by
\* browse-and-filter after a direct search that found nothing.
C5_Witness ==
    /\ pc = "done"
    /\ result.type = "dict"
    /\ result.article_count = 5
    /\ AllOfMethod(result.articles, "browse_filter")
    /\ ran = << "direct_search", "browse_filter" >>

PrimaryCount(arts) == Len(arts) - CountMethod(arts, "alternative_source")

AlternateArticles(arts) ==
    { i \in 1..Len(arts) : arts[i].search_method = "alternative_source" }

\* C6: the alternate sites are searched exactly when the primary search
\* returned fewer than 3 articles; they are visited in their fixed order,
\* a site only while no site before it has yielded an article, so the
\* alternate articles of a run all come from one site.
C6_AlternateFallback ==
    /\ [] /\ pc \in AfterAltCheck =>
               (InSeq("alternative_source", ran)
                  <=> PrimaryCount(articles) < AltThreshold)
          /\ pc = "alt" => altResults = << >>
          /\ pc \in {"alt", "alt_loop"} => altIdx \in 1..Len(alternative_sources)
          /\ pc = "alt_loop" =>
               \A i \in 1..Len(altResults) :
                  altResults[i].source = alternative_sources[altIdx].name
          /\ \A i, j \in AlternateArticles(articles) :
               articles[i].source = articles[j].source
    /\ [][ /\ (pc = "chain_done" /\ pc' = "alt") => altIdx' = 1
           /\ (pc \in {"alt", "alt_loop"} /\ pc' = "alt") =>
                 (altIdx' = altIdx + 1 /\ altResults = << >>)
           /\ (pc \in {"alt", "alt_loop"} /\ pc' = "alt_loop") =>
                 altIdx' = altIdx ]_vars

\* C6 happens: the alternate search is over and its articles come from the
\* second site, the first one having yielded nothing.
C6_Witness ==
    /\ pc = "check_empty"
    /\ InSeq("alternative_source", ran)
    /\ AlternateArticles(articles) # {}
    /\ \A i \in AlternateArticles(articles) :
          articles[i].source = alternative_sources[2].name

\* C7 as stated: when the search returns, a strategy in which an exception
\* was caught has contributed no article.
C7_ZeroOnException ==
    pc = "chain_done" =>
       \A m \in caught : CountMethod(articles, m) = 0

\* C7: an exception raised inside a search strategy never leaves the
\* search: the step that catches it (a result page, a browse page, one
\* result container) adds no article and keeps the ones found before it,
\* the search goes on, and the strategies after it are entered under the
\* same thresholds.
C7_ExceptionContained ==
    /\ [][ (pc \in ChainPcs /\ raised') =>
              /\ articles' = articles
              /\ pc' \in ChainPcs ]_vars
    /\ [] ( (pc = "chain_done" /\ caught # {}) =>
              /\ InSeq("browse_filter", ran)
                   <=> CountMethod(articles, "direct_search") < BrowseThreshold
              /\ InSeq("google_search", ran)
                   <=> CountMethod(articles, "direct_search")
                       + CountMethod(articles, "browse_filter") < GoogleThreshold )

\* C7 happens: the search is over, exceptions were caught in the direct
\* search and in a browse page, browse-and-filter still contributed an
\* article and the search engine was still run.
C7_Witness ==
    /\ pc = "chain_done"
    /\ caught = {"direct_search", "browse_filter"}
    /\ CountMethod(articles, "browse_filter") = 1
    /\ ran = << "direct_search", "browse_filter", "google_search" >>

ContentFields == {"full_content", "mention_count", "relevant_paragraphs"}

HasContentFields(a) == \A f \in ContentFields : Has(a, f)

\* C8: get_article_content handles the articles in list order, one after
\* the other; a failed article gets the failure sentinel, mention_count 0
\* and no relevant paragraph, and the articles after it are still handled;
\* when the batch is over every article has full_content, mention_count
\* and relevant_paragraphs.
C8_EveryArticleHandled ==
    /\ pc = "content" =>
          \A i \in 1..Len(articles) :
             IF i < idx THEN HasContentFields(articles[i])
             ELSE \A f \in ContentFields : ~Has(articles[i], f)
    /\ pc # "content" => \A i \in 1..Len(articles) : HasContentFields(articles[i])
    /\ \A i \in 1..Len(articles) :
          Failed(articles[i]) =>
             /\ Has(articles[i], "mention_count")
             /\ articles[i].mention_count = 0
             /\ Has(articles[i], "relevant_paragraphs")
             /\ articles[i].relevant_paragraphs = << >>

\* C8 happens: the batch is over, its first article failed and the second
\* one was extracted.
C8_Witness ==
    /\ pc = "themes"
    /\ Len(articles) = 2
    /\ Failed(articles[1])
    /\ HasContentFields(articles[2])
    /\ ~Failed(articles[2])
    /\ articles[2].full_content # << >>

\* C9: after get_article_content, an article whose full_content is empty
\* or is the failure sentinel has mention_count 0.
C9_NoContentNoMention ==
    pc # "content" =>
       \A i \in 1..Len(articles) :
          ( /\ Has(articles[i], "full_content")
            /\ \/ articles[i].full_content = << >>
               \/ IsFailureSentinel(articles[i].full_content) )
          => /\ Has(articles[i], "mention_count")
             /\ articles[i].mention_count = 0

\* C9 happens: the batch is over with an article of empty content and an
\* article with the failure sentinel, both with mention_count 0.
C9_Witness ==
    /\ pc = "themes"
    /\ Len(articles) = 2
    /\ HasContentFields(articles[1])
    /\ articles[1].full_content = << >>
    /\ articles[1].mention_count = 0
    /\ Failed(articles[2])
    /\ articles[2].mention_count = 0

\* C10 as stated: in a finished run, an article whose fetch failed has the
\* sentinel, mention_count 0, no relevant paragraph, theme counts all 0 and
\* primary focus "undetermined", whatever the message of the exception.
C10_FailedArticleNeutral ==
    pc = "done" =>
       \A i \in 1..Len(articles) :
          Failed(articles[i]) =>
             /\ articles[i].mention_count = 0
             /\ articles[i].relevant_paragraphs = << >>
             /\ Has(articles[i], "esg_theme_counts")
             /\ \A t \in DOMAIN articles[i].esg_theme_counts :
                   articles[i].esg_theme_counts[t] = 0
             /\ Has(articles[i], "primary_esg_focus")
             /\ articles[i].primary_esg_focus = "undetermined"

\* The fields the four analysis passes write.
AnalysisFields ==
    { "esg_theme_counts", "esg_keywords", "primary_esg_focus",
      "sustainable_finance_mentions", "sustainable_finance_keywords",
      "sustainable_finance_focus", "sentiment_score", "sentiment",
      "positive_words", "negative_words", "quotes", "quote_count" }

AfterPasses == {"save", "report", "return", "except", "finally", "done"}

PassPcs == {"themes", "finance", "sentiment", "quotes"}

\* full_content absent or empty.
WithoutContent(a) == Has(a, "full_content") => a.full_content = << >>

\* C11 as stated: after the four passes an article without content holds
\* the zero/empty default in every analysis field.
C11_DefaultsWithoutContent ==
    pc \in AfterPasses =>
       \A i \in 1..Len(articles) :
          WithoutContent(articles[i]) =>
             /\ Has(articles[i], "esg_theme_counts")
             /\ \A t \in DOMAIN articles[i].esg_theme_counts :
                   articles[i].esg_theme_counts[t] = 0
             /\ Has(articles[i], "primary_esg_focus")
             /\ articles[i].primary_esg_focus = "undetermined"
             /\ Has(articles[i], "sustainable_finance_mentions")
             /\ articles[i].sustainable_finance_mentions = 0
             /\ Has(articles[i], "sustainable_finance_focus")
             /\ articles[i].sustainable_finance_focus = FALSE
             /\ Has(articles[i], "sentiment_score")
             /\ articles[i].sentiment_score = 0
             /\ Has(articles[i], "sentiment")
             /\ articles[i].sentiment = "neutral"
             /\ Has(articles[i], "quotes")
             /\ articles[i].quotes = << >>
             /\ Has(articles[i], "quote_count")
             /\ articles[i].quote_count = 0

\* C11: for an article whose full_content is absent or empty no analysis
\* pass raises and every pass leaves the article as it was: none of the
\* analysis fields is set on it; where primary_esg_focus is set it is one
\* of environmental, social, governance, undetermined.
C11_NoContentUntouched ==
    /\ [] ( \A i \in 1..Len(articles) :
              /\ WithoutContent(articles[i]) =>
                    \A f \in AnalysisFields : ~Has(articles[i], f)
              /\ Has(articles[i], "primary_esg_focus") =>
                    articles[i].primary_esg_focus \in FocusNames )
    /\ [][ (pc \in PassPcs) =>
              ( /\ pc' \in PassPcs \cup {"save"}
                /\ \A i \in 1..Len(articles) :
                      WithoutContent(articles[i]) => articles'[i] = articles[i] ) ]_vars

\* C11 happens: the passes are over on an article without full_content and
\* on none of them was an analysis field set.
C11_Witness ==
    /\ pc = "save"
    /\ Len(articles) = 1
    /\ ~Has(articles[1], "full_content")
    /\ \A f \in AnalysisFields : ~Has(articles[1], f)

ThemeOrder == << "environmental", "social", "governance" >>

\* C12: on every article analyze_esg_themes analysed, primary_esg_focus is
\* "undetermined" exactly when the three theme counts are 0; otherwise it
\* is a theme whose count is the largest, and no theme before it in the
\* order environmental, social, governance has the same count.
C12_PrimaryFocusIsFirstMax ==
    \A i \in 1..Len(articles) :
       Has(articles[i], "esg_theme_counts") =>
          LET counts == articles[i].esg_theme_counts
              focus == articles[i].primary_esg_focus
          IN  /\ Has(articles[i], "primary_esg_focus")
              /\ DOMAIN counts = {"environmental", "social", "governance"}
              /\ (focus = "undetermined")
                    <=> (\A t \in DOMAIN counts : counts[t] = 0)
              /\ focus # "undetermined" =>
                    \E n \in 1..Len(ThemeOrder) :
                       /\ focus = ThemeOrder[n]
                       /\ \A m \in 1..Len(ThemeOrder) :
                             counts[ThemeOrder[m]] <= counts[focus]
                       /\ \A m \in 1..(n - 1) :
                             counts[ThemeOrder[m]] < counts[focus]

\* C12 happens: an analysed article has counts environmental 2, social 2,
\* governance 0 and primary focus "environmental".
C12_Witness ==
    /\ pc = "finance"
    /\ Len(articles) = 1
    /\ Has(articles[1], "esg_theme_counts")
    /\ articles[1].esg_theme_counts
          = [environmental |-> 2, social |-> 2, governance |-> 0]
    /\ articles[1].primary_esg_focus = "environmental"

\* C13: detect_sentiment records sentiment_score 0 when no positive and no
\* negative word was counted; otherwise the score (kept in hundredths) is
\* (pos - neg) / (pos + neg) rounded to 2 decimals, that is the hundredth
\* at distance at most 1/2 hundredth from the quotient, within [-1, 1].
C13_ScoreIsRoundedRatio ==
    \A i \in 1..Len(articles) :
       Has(articles[i], "sentiment_score") =>
          /\ Has(articles[i], "positive_words")
          /\ Has(articles[i], "negative_words")
          /\ LET pos == articles[i].positive_words
                 neg == articles[i].negative_words
                 score == articles[i].sentiment_score
                 off == 200 * (pos - neg) - 2 * score * (pos + neg)
             IN  /\ pos >= 0
                 /\ neg >= 0
                 /\ pos + neg = 0 => score = 0
                 /\ pos + neg > 0 =>
                       /\ off <= pos + neg
                       /\ -off <= pos + neg
                       /\ score >= -100
                       /\ score <= 100

\* C13 happens: 5 positive words and 1 negative word were counted and the
\* recorded score is 0.67.
C13_Witness ==
    /\ pc = "quotes"
    /\ Len(articles) = 1
    /\ Has(articles[1], "sentiment_score")
    /\ articles[1].positive_words = 5
    /\ articles[1].negative_words = 1
    /\ articles[1].sentiment_score = 67

\* C14 as stated: the recorded label agrees with the recorded score:
\* "positive" exactly when the score is above 0.1, "negative" exactly when
\* it is below -0.1, "neutral" otherwise.
C14_LabelAgreesWithScore ==
    \A i \in 1..Len(articles) :
       Has(articles[i], "sentiment") =>
          /\ Has(articles[i], "sentiment_score")
          /\ (articles[i].sentiment = "positive")
                <=> (articles[i].sentiment_score > 10)
          /\ (articles[i].sentiment = "negative")
                <=> (articles[i].sentiment_score < -10)
          /\ (articles[i].sentiment = "neutral")
                <=> (articles[i].sentiment_score >= -10
                     /\ articles[i].sentiment_score <= 10)

\* The words "bond" and "finance" of a text: in the texts of the model each
\* of them closes one occurrence of a sustainable-finance keyword.
FinanceWordsIn(t) == Cardinality({ j \in 1..Len(t) : t[j] \in {"bond", "finance"} })

\* C15: on every article add_sustainable_finance_data analysed,
\* sustainable_finance_focus is true exactly when
\* sustainable_finance_mentions is above 3, and the mentions are the number
\* of keyword occurrences in the content.
C15_FocusAboveThree ==
    \A i \in 1..Len(articles) :
       Has(articles[i], "sustainable_finance_mentions") =>
          /\ Has(articles[i], "sustainable_finance_focus")
          /\ articles[i].sustainable_finance_focus
                <=> (articles[i].sustainable_finance_mentions > 3)
          /\ Has(articles[i], "full_content")
          /\ articles[i].sustainable_finance_mentions
                = FinanceWordsIn(articles[i].full_content)

\* C15 happens: a content of 4 times "sustainable bond" has 4 mentions and
\* the focus flag set.
C15_Witness ==
    /\ pc = "sentiment"
    /\ Len(articles) = 1
    /\ Has(articles[1], "sustainable_finance_mentions")
    /\ articles[1].full_content = Repeat(<< "sustainable", "bond" >>, 4)
    /\ articles[1].sustainable_finance_mentions = 4
    /\ articles[1].sustainable_finance_focus = TRUE

\* The table entries whose variations hold a lowercased name.
TableHits(company_lower) ==
    { i \in 1..Len(company_variations) :
        \E j \in 1..Len(company_variations[i].variations) :
           company_variations[i].variations[j] = company_lower }

\* C16: for every company name, normalize_company_name returns a name and a
\* non-empty list of variations that holds the lowercased input: for a
\* name of the table the entry's canonical name and its whole list, for any
\* other name the lowercased input with the two variations lowercased
\* input and lowercased input without spaces.
C16_NormalizeTotal ==
    LET company_lower == Lower(company)
        normalized == normalize_company_name(company)
        hits == TableHits(company_lower)
    IN  /\ normalized.variations # << >>
        /\ \E j \in 1..Len(normalized.variations) :
              normalized.variations[j] = company_lower
        /\ hits # {} =>
              \E i \in hits :
                 /\ normalized.standard_name = company_variations[i].name
                 /\ normalized.variations = company_variations[i].variations
        /\ hits = {} =>
              /\ normalized.standard_name = company_lower
              /\ normalized.variations
                    = << company_lower, RemoveSpaces(company_lower) >>

\* C16 happens: the quotes of an article of the company "Acme Corp", which
\* is not in the table, have been filtered with the variations
\* "acme corp" and "acmecorp".
C16_Witness ==
    /\ pc = "save"
    /\ company = "Acme Corp"
    /\ Len(articles) = 1
    /\ articles[1].company = company
    /\ Has(articles[1], "quote_count")
    /\ TableHits(Lower(company)) = {}
    /\ normalize_company_name(company).variations = << "acme corp", "acmecorp" >>

\* C17: for every value of retries, a call of safe_get that has returned
\* returned True or False after at most retries navigation attempts, with
\* one wait of retry_delay between two consecutive attempts and none after
\* the last; True came from the last attempt made, False after exactly
\* retries failed attempts.
C17_SafeGetContract ==
    (pc = "safe_get_returned") =>
        /\ returned \in {"True", "False"}
        /\ navigations <= retries
        /\ Len(sleeps) = navigations - 1
        /\ \A i \in 1..Len(sleeps) : sleeps[i] = retry_delay
        /\ returned = "False" => navigations = retries

\* C18: an article whose page showed block/CAPTCHA indicators is handled as
\* an article whose page could not be loaded: whenever the content recorded
\* for an article shows such an indicator, that content is the failure
\* sentinel, with mention_count 0 and no relevant paragraphs.
C18_BlockedIsFailure ==
    \A i \in 1..Len(articles) :
       (/\ Has(articles[i], "full_content")
        /\ ShowsBlock(articles[i].full_content)) =>
          /\ IsFailureSentinel(articles[i].full_content)
          /\ articles[i].mention_count = 0
          /\ articles[i].relevant_paragraphs = << >>

\* The stage of run_complete_analysis a position belongs to, in the order
\* of the statements of its try block.
StageOf(p) ==
    CASE p \in ChainPcs \cup {"start"} -> 1
      [] p \in {"alt", "alt_loop"} -> 2
      [] p = "check_empty" -> 3
      [] p = "content" -> 4
      [] p = "themes" -> 5
      [] p = "finance" -> 6
      [] p = "sentiment" -> 7
      [] p = "quotes" -> 8
      [] p = "save" -> 9
      [] p = "report" -> 10
      [] p = "return" -> 11
      [] p = "except" -> 11
      [] p = "finally" -> 12
      [] OTHER -> 13

\* C19: the stages run in the order primary search chain, alternate-site
\* fallback, content retrieval, theme analysis, sustainable-finance
\* analysis, sentiment analysis, quote extraction, JSON persistence, report
\* rendering, resource release: no step goes back to an earlier stage (so
\* no stage runs twice), a stage is left only for the one after it (the
\* fallback may be passed over, and an exception or the early return leaves
\* for the release), and a run with at least one article goes on to
\* content retrieval.
C19_StagesInOrder ==
    [][ /\ StageOf(pc') >= StageOf(pc)
        /\ (StageOf(pc') > StageOf(pc) /\ pc' \notin {"except", "finally"}) =>
              \/ StageOf(pc') = StageOf(pc) + 1
              \/ StageOf(pc) = 1 /\ pc' = "check_empty"
        /\ (pc = "check_empty" /\ articles # << >>) => pc' = "content"
      ]_vars

\* C19 happens: a run whose primary chain was followed by the alternate
\* sites has gone through every stage and released the browser.
C19_Witness ==
    /\ pc = "done"
    /\ exitPath = "normal"
    /\ articles # << >>
    /\ \E i \in 1..Len(ran) : ran[i] = "alternative_source"
    /\ \A i \in 1..Len(articles) : Has(articles[i], "quote_count")
    /\ quits = 1

\* C20: the listing of a rendered report holds at most 10 articles, those
\* that come first when the articles are ordered by mention_count
\* descending (0 for an article without one) and, among equal counts, by
\* their place in the input list; each entry shows the first 3 quotes of
\* its article at most.
C20_TopTenByMentions ==
    (pc = "return" /\ articles # << >>) =>
        LET n == Len(html_content)
            Key(p) == IF Has(articles[p], "mention_count")
                      THEN articles[p].mention_count ELSE 0
            Place(i) == CHOOSE p \in 1..Len(articles) :
                           articles[p].link = html_content[i].link
            Before(p, r) == Key(p) > Key(r) \/ (Key(p) = Key(r) /\ p < r)
            listed == { Place(i) : i \in 1..n }
        IN  /\ n <= TopArticles
            /\ n = TopArticles \/ n = Len(articles)
            /\ \A i \in 1..n :
                  /\ \E p \in 1..Len(articles) :
                        articles[p].link = html_content[i].link
                  /\ html_content[i].mention_count = Key(Place(i))
                  /\ Len(html_content[i].quotes) <= ShownQuotes
                  /\ IF Has(articles[Place(i)], "quotes")
                     THEN /\ Len(html_content[i].quotes)
                               <= Len(articles[Place(i)].quotes)
                          /\ Len(articles[Place(i)].quotes) >= ShownQuotes =>
                               Len(html_content[i].quotes) = ShownQuotes
                          /\ \A j \in 1..Len(html_content[i].quotes) :
                               html_content[i].quotes[j]
                                   = articles[Place(i)].quotes[j]
                     ELSE html_content[i].quotes = << >>
            /\ \A i, j \in 1..n : i < j => Before(Place(i), Place(j))
            /\ \A p \in (1..Len(articles)) \ listed :
                  \A r \in listed : Before(r, p)

\* C20 happens: a report of 11 articles lists 10 of them, among them two
\* neighbours with the same mention_count, an article without
\* mention_count, and the first article with 3 of its 4 quotes.
C20_Witness ==
    /\ pc = "return"
    /\ Len(articles) > TopArticles
    /\ Len(html_content) = TopArticles
    /\ Len(articles[1].quotes) > ShownQuotes
    /\ \E i \in 1..Len(html_content) :
          /\ html_content[i].link = articles[1].link
          /\ Len(html_content[i].quotes) = ShownQuotes
    /\ \E i \in 1..(Len(html_content) - 1) :
          html_content[i].mention_count = html_content[i + 1].mention_count
    /\ \E p \in 1..Len(articles) : \E i \in 1..Len(html_content) :
          /\ ~Has(articles[p], "mention_count")
          /\ html_content[i].link = articles[p].link

\* C21: two runs for the same company over the same responses hold, at
\* every stage, article lists that are equal field by field and in the
\* same order.
C21_RunsAgree == twin = articles

\* C22: every article of a run, whichever strategy or source found it, has
\* as company the canonical name normalize_company_name gives for the
\* company name of the run.
C22_CompanyIsCanonical ==
    \A i \in 1..Len(articles) :
       articles[i].company = normalize_company_name(company).standard_name

\* C24: once get_article_content is over, the date of every article is a
\* non-empty date value or the sentinel "Date not found", never an empty
\* or null value.
C24_DateResolvedOrSentinel ==
    (pc \notin {"content"}) =>
        \A i \in 1..Len(articles) : articles[i].date \notin {"", None}

\* The stages that follow discovery.
LaterPcs == {"content", "themes", "finance", "sentiment", "quotes", "save", "report"}

\* C23: a step of a stage after discovery keeps the number and the order of
\* the articles and leaves every field an article already has at the value
\* it has (link, source, search_method and company among them), except date
\* during content retrieval; save_to_json and generate_report change
\* nothing in the list.
C23_LaterStagesKeepFields ==
    [][ (pc \in LaterPcs) =>
          ( /\ Len(articles') = Len(articles)
            /\ \A i \in 1..Len(articles) :
                  \A f \in DOMAIN articles[i] :
                     /\ f \in DOMAIN articles'[i]
                     /\ \/ f = "date" /\ pc = "content"
                        \/ articles'[i][f] = articles[i][f]
            /\ (pc \in {"save", "report"}) => articles' = articles )
      ]_vars

\* C23 happens: a run has gone through every stage, content retrieval has
\* replaced the date of an article, another article failed there, and the
\* report is written.
C23_Witness ==
    /\ pc = "done"
    /\ exitPath = "normal"
    /\ report_file # None
    /\ \E i \in 1..Len(articles) :
          /\ articles[i].search_method = "direct_search"
          /\ articles[i].date = "March 5, 2024"
          /\ "quote_count" \in DOMAIN articles[i]
    /\ \E i \in 1..Len(articles) :
          /\ "full_content" \in DOMAIN articles[i]
          /\ IsFailureSentinel(articles[i].full_content)

\* C25: in get_article_content the navigation to an article is started
\* only when every navigation to an earlier article has been followed by
\* the inter-article delay, whether that article succeeded or failed.
C25_DelayBetweenArticles ==
    [][ (pc = "content" /\ navigations' = navigations + 1) =>
            /\ Len(sleeps) = navigations
            /\ \A i \in 1..Len(sleeps) : sleeps[i] = ArticleDelay
      ]_vars

\* C26: every article found by the search-engine strategy has a link on
\* the site the direct search and the browse strategy query; at most 5
\* results were taken, and none whose link an earlier article has.
C26_GoogleLinksOnTargetSite ==
    LET found == { i \in 1..Len(articles) :
                     articles[i].search_method = "google_search" }
    IN  /\ \A i \in found : articles[i].link.site = PrimarySite
        /\ Cardinality(found) <= GoogleTop
        /\ \A i \in found : \A j \in 1..(i - 1) :
              articles[j].link # articles[i].link

\* C27: after extract_quotes, for every article with non-empty content, the
\* quotes kept are exactly the pattern matches (those of the attribution
\* pattern first, then those of the preceding-attribution pattern, each in
\* match order) in whose lowercased speaker or text a variation of the
\* company name occurs, and quote_count is their number.
C27_QuotesAboutCompany ==
    (pc = "save") =>
        \A i \in 1..Len(articles) :
           ("full_content" \in DOMAIN articles[i] /\ articles[i].full_content # << >>) =>
              LET a == articles[i]
                  matches == FindAll("attribution", a.full_content, 1)
                             \o FindAll("preceding_attribution", a.full_content, 1)
                  variations == normalize_company_name(a.company).variations
                  In(t, v) == \E p \in 1..Len(t) :
                                 /\ p + Len(Tokens(v)) - 1 <= Len(t)
                                 /\ \A j \in 1..Len(Tokens(v)) :
                                       Lower(t[p + j - 1]) = Tokens(v)[j]
                  About(q) == \E n \in 1..Len(variations) :
                                 In(q.speaker, variations[n]) \/ In(q.text, variations[n])
                  kept == { n \in 1..Len(matches) : About(matches[n]) }
              IN  /\ "quotes" \in DOMAIN a /\ "quote_count" \in DOMAIN a
                  /\ a.quote_count = Len(a.quotes)
                  /\ Len(a.quotes) = Cardinality(kept)
                  /\ \A n \in 1..Len(a.quotes) :
                        /\ \E m \in kept : matches[m] = a.quotes[n]
                        /\ a.quotes[n] =
                              matches[CHOOSE m \in kept :
                                        Cardinality({ x \in kept : x <= m }) = n]

\* C27 happens: of the four matches of an article two are kept, the
\* attribution match whose text names the company before the
\* preceding-attribution match whose speaker does, and two are dropped.
C27_Witness ==
    /\ pc = "save"
    /\ Len(articles) = 1
    /\ "quotes" \in DOMAIN articles[1]
    /\ Len(FindAll("attribution", articles[1].full_content, 1)) = 2
    /\ Len(FindAll("preceding_attribution", articles[1].full_content, 1)) = 2
    /\ articles[1].quote_count = 2
    /\ articles[1].quotes[1].pattern = "attribution"
    /\ articles[1].quotes[1].speaker = << "the", "analyst" >>
    /\ articles[1].quotes[2].pattern = "preceding_attribution"
    /\ articles[1].quotes[2].text = << "We", "invest" >>

\* A count and the list of matched keywords recorded with it agree: the
\* count is positive exactly when the list is not empty, every keyword of
\* the list is one of the static list and occurs once, and the count is at
\* least the length of the list.
CountMatchesList(count, found, static) ==
    /\ (count > 0) <=> (found # << >>)
    /\ \A n \in 1..Len(found) : \E m \in 1..Len(static) : static[m] = found[n]
    /\ \A n, m \in 1..Len(found) : n # m => found[n] # found[m]
    /\ count >= Len(found)

\* C28: after analyze_esg_themes and add_sustainable_finance_data, for
\* every analysed article, the count of each theme agrees with the
\* theme's matched keywords, and sustainable_finance_mentions with
\* sustainable_finance_keywords.
C28_CountsAgreeWithKeywords ==
    (pc \in {"sentiment", "quotes", "save"}) =>
        \A i \in 1..Len(articles) :
           ("full_content" \in DOMAIN articles[i] /\ articles[i].full_content # << >>) =>
              /\ {"esg_theme_counts", "esg_keywords", "sustainable_finance_mentions",
                  "sustainable_finance_keywords"} \subseteq DOMAIN articles[i]
              /\ \A t \in {"environmental", "social", "governance"} :
                    CountMatchesList(articles[i].esg_theme_counts[t],
                                     articles[i].esg_keywords[t], esg_themes[t])
              /\ CountMatchesList(articles[i].sustainable_finance_mentions,
                                  articles[i].sustainable_finance_keywords,
                                  sustainable_finance_keywords)

\* C28 happens: an analysed article has two environmental keywords with
\* count 5, no social keyword with count 0, and two finance keywords with
\* 5 mentions.
C28_Witness ==
    /\ pc = "sentiment"
    /\ Len(articles) = 1
    /\ "esg_keywords" \in DOMAIN articles[1]
    /\ "sustainable_finance_keywords" \in DOMAIN articles[1]
    /\ Len(articles[1].esg_keywords.environmental) = 2
    /\ articles[1].esg_theme_counts.environmental = 5
    /\ articles[1].esg_keywords.social = << >>
    /\ articles[1].esg_theme_counts.social = 0
    /\ Len(articles[1].sustainable_finance_keywords) = 2
    /\ articles[1].sustainable_finance_mentions = 5

\* C29: in search_esg_news the fields of every container are read while
\* the browser shows the results page: the loop never comes to a container
\* with another page shown, and when the search is over every container
\* with a title has given one article, with its own date and excerpt.
C29_FieldsReadOnResultsPage ==
    /\ (pc = "news_loop" /\ k < Len(containers)) => shown = "results"
    /\ (pc = "news_done" /\ shown # "blank") =>
          LET titled == { i \in 1..Len(containers) : containers[i].titled }
          IN  /\ Len(articles) = Cardinality(titled)
              /\ \A i \in titled : \E n \in 1..Len(articles) :
                    /\ articles[n].link.id = i
                    /\ articles[n].excerpt # NoExcerpt
                    /\ containers[i].dated => articles[n].date # DateNotFound

\* C30: for every company name, normalizing what discovery stores in the
\* company field of an article (the canonical name in the primary chain,
\* the name as given for alternate sources) gives the canonical name and
\* the variation list that normalizing the name itself gives; so it is for
\* the company field of every article of the state.
C30_NormalizeStoredName ==
    LET normalized == normalize_company_name(company)
        stored == {normalized.standard_name, company}
                  \cup { articles[i].company : i \in 1..Len(articles) }
    IN  \A c \in stored :
           /\ normalize_company_name(c).standard_name = normalized.standard_name
           /\ normalize_company_name(c).variations = normalized.variations

\* C30 happens: the quotes of an article of "JPMorgan Chase" have been
\* filtered; its canonical name "jpmorgan" differs from the name given
\* and from its lowercase form.
C30_Witness ==
    /\ pc = "save"
    /\ company = "JPMorgan Chase"
    /\ Len(articles) = 1
    /\ articles[1].company = "JPMorgan Chase"
    /\ "quote_count" \in DOMAIN articles[1]
    /\ normalize_company_name(company).standard_name = "jpmorgan"
    /\ normalize_company_name("jpmorgan").variations
          = normalize_company_name(company).variations

====
